---------------------------- MODULE Spec2Model ----------------------------
(***************************************************************************)
(* Flowers for Molly: the infinite-wraparound parallax garden              *)
(* (InfiniteParallaxGarden.tsx), the viewport events it emits to its host  *)
(* page, and the biome -> layer builder (p5/sketch.ts).                    *)
(*                                                                         *)
(* Positions are CSS pixels, modelled as integers.  Parallax factors and   *)
(* opacities are rationals n / ParDen, carried as their numerator n.       *)
(***************************************************************************)
EXTENDS Integers, Sequences, FiniteSets, TLC

VARIABLES
    segmentWidth,       \* prop: logical width of one segment
    initialOffsetX,     \* prop: start offset handed in by the host
    clientWidth,        \* el.clientWidth of the scroll container
    elScrollLeft,       \* el.scrollLeft, the raw scroll position held by the DOM
    scrollLeft,         \* React state: the reactive copy of the scroll position
    pc,                 \* garden lifecycle: "render1", "flush", "commit", "ready"
    scrollEventPending, \* a DOM scroll event is queued for onScroll
    viewport,           \* host state: the last GardenViewport event received
    notified,           \* whether the garden has emitted an event yet
    lastRaw,            \* x read by the last handleScroll run (-1: none yet)
    lastOp,             \* name of the last handler that ran
    wheelToHorizontal,  \* prop: map the wheel to horizontal scroll
    defaultPrevented,   \* e.defaultPrevented of the wheel event just dispatched
    wheelLog,           \* history: the wheel event just dispatched and the state it met
    biome,              \* the BiomeConfig handed to buildLayersFromBiome
    bpc,                \* where the current buildLayersFromBiome call stands
    gi,                 \* index of the group the outer loop is at
    ai,                 \* index of the asset the inner loop is at
    layerBuckets,       \* the current group's Map, as its entries in insertion order
    layers,             \* the LayerConfig[] being built
    prevLayers,         \* what the previous call returned
    calls,              \* number of buildLayersFromBiome calls that have returned
    hstr,               \* the string handed to the hash functions (UTF-16 code units)
    hres,               \* what the last call of each hash function returned
    hprev,              \* what the call before it returned
    hcalls,             \* number of calls of each hash function so far
    rngSeed,            \* the seed handed to rng01 and to makeRng
    rngX,               \* x of each rng01 closure
    rngS,               \* s of each makeRng closure
    rngOut,             \* the values each rng01 closure has returned, in order
    mkOut,              \* the values each makeRng closure has returned, in order
    stories,            \* overlay prop: the ids of the stories, in order
    dotSegmentWidth,    \* overlay prop: segmentWidth
    dotViewport,        \* overlay prop: the host's viewport state
    pMin,               \* overlay prop, in hundredths
    pMax,               \* overlay prop, in hundredths
    dots,               \* the memoized Dot[] (empty until the overlay renders)
    shown,              \* whether the host renders the overlay
    mVariant,           \* which source of the garden is mounted
    mInst,              \* number of garden instances mounted so far
    mPc,                \* "unmounted", "cleanup", "setup" or "idle"
    mProps,             \* props and state the effect dependencies are made of
    mTodo,              \* the effects whose cleanup or setup is still to run
    windowListeners,    \* wheel listeners on window: [inst, fn]
    observing,          \* ResizeObservers observing an element: [inst, ro]
    wheelHeld,          \* the listener the wheel effect's cleanup removes (0: none)
    resizeHeld,         \* per effect slot, the observer its cleanup disconnects
    mFresh,             \* closures and observers created so far
    hpPc,               \* home page: "unmounted", "mounted" or "gone"
    fetchPc,            \* its story fetch: "none", "fetch", "json" or "done"
    fetchCancelled,     \* the cancelled flag of its effect
    hpStories,          \* its stories state: "initial", "loaded" or "empty"
    hpLoading,          \* its loading state
    hpLateCalls,        \* history: state setters called after it was unmounted
    p5Page,             \* which p5 host page is shown
    p5Pc,               \* p5 host: "unmounted", "mounted" or "gone"
    p5Runs,             \* the runs of its effect: [cancelled, import]
    p5Ref,              \* p5InstanceRef.current: the run whose instance it holds (0: null)
    p5Live,             \* the p5 instances created and not removed, by run
    hostRefCurrent,     \* whether hostRef.current holds the host element
    hoverId,            \* overlay state: the key of the hovered dot (<<>>: null)
    activeStory,        \* host state: the story in the modal (<<>>: null)
    dotViewportW,       \* viewport.viewportW of the host's viewport state
    arcPc,              \* GardenArc: "unmounted" or "mounted"
    arcSeed,            \* GardenArc's seed prop
    arcCount,           \* GardenArc's count prop
    arcWidth,           \* GardenArc's width prop
    arcRng,             \* s of the closure the rng useMemo holds
    arcPlacements,      \* the value the placements useMemo holds
    arcComputes,        \* computations of placements since the mount
    cachedConn,         \* cached.conn: 0 (null) or the attempt it came from
    cachedPromise,      \* cached.promise: 0 (null) or the attempt it belongs to
    attempts,           \* the promise of each mongoose.connect call
    dbPc,               \* each dbConnect caller's position
    dbAwaits,           \* the attempt whose promise each caller awaits
    dbResult            \* what each caller's dbConnect() resolved to

gardenVars == <<segmentWidth, initialOffsetX, clientWidth, elScrollLeft,
                scrollLeft, pc, scrollEventPending, viewport, notified,
                lastRaw, lastOp, wheelToHorizontal, defaultPrevented,
                wheelLog>>

buildVars == <<biome, bpc, gi, ai, layerBuckets, layers, prevLayers, calls>>

hashVars == <<hstr, hres, hprev, hcalls>>

rngVars == <<rngSeed, rngX, rngS, rngOut, mkOut>>

dotVars == <<stories, dotSegmentWidth, dotViewport, pMin, pMax, dots, shown>>

mountVars == <<mVariant, mInst, mPc, mProps, mTodo, windowListeners,
               observing, wheelHeld, resizeHeld, mFresh>>

loadVars == <<hpPc, fetchPc, fetchCancelled, hpStories, hpLoading,
              hpLateCalls, p5Page, p5Pc, p5Runs, p5Ref, p5Live,
              hostRefCurrent>>

uiVars == <<hoverId, activeStory, dotViewportW>>

arcVars == <<arcPc, arcSeed, arcCount, arcWidth, arcRng, arcPlacements,
             arcComputes>>

dbVars == <<cachedConn, cachedPromise, attempts, dbPc, dbAwaits, dbResult>>

\* the components of the later sections
lateVars == <<mountVars, loadVars, uiVars, arcVars, dbVars>>

vars == <<gardenVars, buildVars, hashVars, rngVars, dotVars, lateVars>>

\* the components of the earlier sections
earlyVars == <<gardenVars, buildVars, hashVars, rngVars, dotVars>>

\* the variables an action of one component leaves alone
nonGardenVars == <<buildVars, hashVars, rngVars, dotVars, lateVars>>
nonBuildVars == <<gardenVars, hashVars, rngVars, dotVars, lateVars>>
nonHashVars == <<gardenVars, buildVars, rngVars, dotVars, lateVars>>
nonRngVars == <<gardenVars, buildVars, hashVars, dotVars, lateVars>>
nonDotVars == <<gardenVars, buildVars, hashVars, rngVars, lateVars>>
nonMountVars == <<earlyVars, loadVars, uiVars, arcVars, dbVars>>
nonLoadVars == <<earlyVars, mountVars, uiVars, arcVars, dbVars>>
nonOverlayVars == <<gardenVars, buildVars, hashVars, rngVars, mountVars,
                    loadVars, arcVars, dbVars>>
nonArcVars == <<earlyVars, mountVars, loadVars, uiVars, dbVars>>
nonDbVars == <<earlyVars, mountVars, loadVars, uiVars, arcVars>>

-----------------------------------------------------------------------------
(* Bounds of the model *)

\* width of the scaled-down segment explored exhaustively
SegSmall == 8
\* largest wheel / native scroll step, in units of WheelUnit
MaxStep == 5
\* denominator of the rational parallax factors
ParDen == 4
\* most assets in a group of a biome
MaxAssets == 3

(* Program constants *)

\* segmentWidth default, and the value the home page passes
DefaultSegmentWidth == 4096
\* initialOffsetX the home page passes
HostInitialOffsetX == 1024
\* const ANCHOR = 1024, the baseY of the meadow biome's groups
ANCHOR == 1024

-----------------------------------------------------------------------------
(* Arithmetic helpers *)

Max(a, b) == IF a >= b THEN a ELSE b
Min(a, b) == IF a <= b THEN a ELSE b
Abs(a) == IF a < 0 THEN -a ELSE a

\* JavaScript's % operator: the remainder takes the sign of the dividend.
JsRem(a, b) == IF a >= 0 THEN a % b ELSE -((-a) % b)

\* const clamp = (v, a, b) => Math.max(a, Math.min(b, v))
clamp(v, a, b) == Max(a, Min(b, v))

-----------------------------------------------------------------------------
(* The scroll container *)

\* const middleStart = segmentWidth
middleStart == segmentWidth

\* The content is 3 segments wide inside a container clientWidth wide: the
\* DOM keeps scrollLeft within [0, scrollWidth - clientWidth].
MaxScroll == Max(0, 3 * segmentWidth - clientWidth)
ClampScroll(x) == clamp(x, 0, MaxScroll)

\* (mutant) the initial target without the remainder
InitialTargetNoRem == middleStart + initialOffsetX

\* target of the initial-scroll layout effect
InitialTarget == middleStart + JsRem(initialOffsetX, segmentWidth)

\* (mutant) localX without the correction of a negative remainder
LocalXNoFix(s) == JsRem(s - middleStart, segmentWidth)

\* localX useMemo, as a function of the scrollLeft state it is computed from
LocalXOf(s) ==
    LET x == JsRem(s - middleStart, segmentWidth)
    IN  IF x < 0 THEN x + segmentWidth ELSE x

localX == LocalXOf(scrollLeft)


\* notifyViewport: the offsetX it hands to onViewportChange, computed from the
\* scrollLeft state s of the render whose closure it belongs to
LogicalOffsetX(s) == JsRem(s - middleStart + LocalXOf(s), segmentWidth)

\* the GardenViewport event built by notifyViewport
ViewportEvent(s, w) == [offsetX |-> LogicalOffsetX(s), viewportW |-> w]

\* handleScroll's wrap: the position it writes back for a position x it read
leftBoundaryPassed(x) == 2 * x < middleStart          \* x < middleStart * 0.5
rightBoundaryPassed(x) == 2 * x > 3 * middleStart     \* x > middleStart * 1.5

\* (mutant) the wrap with both boundaries taken as already passed
WrappedInclusive(x) ==
    IF 2 * x <= middleStart THEN x + segmentWidth
    ELSE IF 2 * x >= 3 * middleStart THEN x - segmentWidth
    ELSE x

\* (mutant) the wrap jumping back to the boundary it crossed, not by a segment
WrappedToBoundary(x) ==
    IF leftBoundaryPassed(x) THEN x + segmentWidth \div 2
    ELSE IF rightBoundaryPassed(x) THEN x - segmentWidth \div 2
    ELSE x

\* (mutant) no wrap at all
WrappedNever(x) == x

\* (mutant) the wrap jumping one pixel short of a segment
WrappedShort(x) ==
    IF leftBoundaryPassed(x) THEN x + segmentWidth - 1
    ELSE IF rightBoundaryPassed(x) THEN x - segmentWidth + 1
    ELSE x

Wrapped(x) ==
    IF leftBoundaryPassed(x) THEN x + segmentWidth
    ELSE IF rightBoundaryPassed(x) THEN x - segmentWidth
    ELSE x

\* (mutant) the shift without the clamp of the parallax factor
parallaxShiftNoClamp(lx, pn) == -lx * (ParDen - pn)

\* (mutant) the shift growing with the parallax factor
parallaxShiftDirect(lx, pn) == -lx * clamp(pn, 0, ParDen)

\* const parallaxShift = -localX * (1 - clamp(parallax, 0, 1)), for a layer
\* with parallax pn / ParDen at local position lx; the value is times ParDen
parallaxShift(lx, pn) == -lx * (ParDen - clamp(pn, 0, ParDen))

\* renderLayerSegment: the style of copy segmentIndex of a layer
renderLayerSegment(pn, segmentIndex) ==
    [left |-> segmentIndex * segmentWidth,
     width |-> segmentWidth,
     translateX |-> parallaxShift(localX, pn)]

\* renderLayer: the three copies of a layer
renderLayer(pn) == [i \in 0 .. 2 |-> renderLayerSegment(pn, i)]

-----------------------------------------------------------------------------
(* Inputs *)

\* wheel and scroll steps are whole pixels for the small segment and
\* eighths of a segment for the home page's 4096 px segment; deltaX is an
\* even number of them, so that deltaY + deltaX * 0.5 is a whole pixel
WheelUnit(sw) == IF sw = SegSmall THEN 1 ELSE sw \div 8
Steps == (-MaxStep) .. MaxStep

\* container widths: a narrow and a segment-wide viewport (the garden is
\* laid out for containers no wider than one segment)
ViewportWidths(sw) == {sw \div 4, sw}

\* initial offsets: the home page's for its segment width; for the small
\* segment negative offsets and offsets of a segment and more as well
InitialOffsets(sw) ==
    IF sw = SegSmall
    THEN {-(sw + 1), -sw, -(sw \div 2) - 1, -1, 0, 1, sw \div 4, sw - 1, sw, sw + 1}
    ELSE {HostInitialOffsetX}

\* parallax numerators: below 0, inside [0,1] and above 1
Parallaxes == (-1) .. (ParDen + 1)

\* wheelToHorizontal: the home page passes it; it is also switched off for
\* the gardens that start at offset 0
WheelModes(off) == IF off = 0 THEN BOOLEAN ELSE {TRUE}

\* the wheel events dispatched: plain ones with a vertical and an (even)
\* horizontal delta, and shift+wheel ones
WheelEvents(sw) ==
    { [deltaY |-> dy * WheelUnit(sw), deltaX |-> 2 * hx * WheelUnit(sw),
       shiftKey |-> FALSE] : dy \in Steps, hx \in {-1, 0, 1} }
    \cup { [deltaY |-> dy * WheelUnit(sw), deltaX |-> 0, shiftKey |-> TRUE] :
             dy \in {-1, 1} }

-----------------------------------------------------------------------------
(* The garden's state machine *)

\* no wheel event is on record
NoWheelLog == [logged |-> FALSE]

\* the hash functions of the program
HashFns == {"hash32", "fnv1a32", "fnv1a32Import"}

\* stands for "no value yet" where a 32-bit result is expected
NoWord == [hi |-> -1, lo |-> -1]

\* no hash function has been called
HashIdle ==
    /\ hstr = <<>>
    /\ hres = [f \in HashFns |-> NoWord]
    /\ hprev = [f \in HashFns |-> NoWord]
    /\ hcalls = [f \in HashFns |-> 0]

\* the closures made from one seed: two by rng01, two by makeRng
Gens == {1, 2}

\* no generator has been made
RngIdle ==
    /\ rngSeed = NoWord
    /\ rngX = [g \in Gens |-> NoWord]
    /\ rngS = [g \in Gens |-> NoWord]
    /\ rngOut = [g \in Gens |-> <<>>]
    /\ mkOut = [g \in Gens |-> <<>>]

\* the host has no stories and renders no overlay
DotsIdle ==
    /\ stories = <<>>
    /\ dotSegmentWidth = DefaultSegmentWidth
    /\ dotViewport = [offsetX |-> 0, viewportH |-> 0]
    /\ pMin = 35
    /\ pMax = 95
    /\ dots = <<>>
    /\ shown = FALSE

\* the effects of the garden that register something
Effects == {"wheel", "resize"}

\* no garden instance has been mounted
MountIdle ==
    /\ mVariant = "InfiniteParallaxGarden.tsx"
    /\ mInst = 0
    /\ mPc = "unmounted"
    /\ mProps = [wheelToHorizontal |-> TRUE, onViewportChange |-> 0,
                 segmentWidth |-> 1, scrollLeft |-> 0, layers |-> 1]
    /\ mTodo = {}
    /\ windowListeners = {}
    /\ observing = {}
    /\ wheelHeld = 0
    /\ resizeHeld = <<>>
    /\ mFresh = 0

\* neither the home page nor a p5 host page has been mounted
LoadIdle ==
    /\ hpPc = "unmounted"
    /\ fetchPc = "none"
    /\ fetchCancelled = FALSE
    /\ hpStories = "initial"
    /\ hpLoading = FALSE
    /\ hpLateCalls = 0
    /\ p5Page = "Page"
    /\ p5Pc = "unmounted"
    /\ p5Runs = <<>>
    /\ p5Ref = 0
    /\ p5Live = {}
    /\ hostRefCurrent = FALSE

\* nothing is hovered, no story is open, no viewport width was emitted
UiIdle ==
    /\ hoverId = <<>>
    /\ activeStory = <<>>
    /\ dotViewportW = 0

\* no GardenArc is mounted
ArcIdle ==
    /\ arcPc = "unmounted"
    /\ arcSeed = NoWord
    /\ arcCount = 0
    /\ arcWidth = 0
    /\ arcRng = NoWord
    /\ arcPlacements = <<>>
    /\ arcComputes = 0

\* most callers of dbConnect
MaxCallers == 3

Callers == 1 .. MaxCallers

\* the module is loaded and dbConnect was never called
DbIdle ==
    /\ cachedConn = 0
    /\ cachedPromise = 0
    /\ attempts = <<>>
    /\ dbPc = [c \in Callers |-> "idle"]
    /\ dbAwaits = [c \in Callers |-> 0]
    /\ dbResult = [c \in Callers |-> 0]

\* the components of the later sections are idle
LateIdle == MountIdle /\ LoadIdle /\ UiIdle /\ ArcIdle /\ DbIdle

\* no buildLayersFromBiome call is under way
BuildIdle ==
    /\ biome = <<>>
    /\ bpc = "idle"
    /\ gi = 0
    /\ ai = 0
    /\ layerBuckets = <<>>
    /\ layers = <<>>
    /\ prevLayers = <<>>
    /\ calls = 0

Init ==
    /\ BuildIdle
    /\ HashIdle
    /\ RngIdle
    /\ DotsIdle
    /\ LateIdle
    /\ segmentWidth \in {SegSmall, DefaultSegmentWidth}
    /\ initialOffsetX \in InitialOffsets(segmentWidth)
    /\ clientWidth \in ViewportWidths(segmentWidth)
    /\ elScrollLeft = 0
    /\ scrollLeft = 0
    /\ pc = "render1"
    /\ scrollEventPending = FALSE
    /\ viewport = [offsetX |-> 0, viewportW |-> 0]
    /\ notified = FALSE
    /\ lastRaw = -1
    /\ lastOp = "none"
    /\ wheelToHorizontal \in WheelModes(initialOffsetX)
    /\ defaultPrevented = FALSE
    /\ wheelLog = NoWheelLog

\* useLayoutEffect of the first render: el.scrollLeft = target (the state
\* update it queues is committed by CommitInitialScroll)
InitialScroll ==
    /\ pc = "render1"
    /\ elScrollLeft' = ClampScroll(InitialTarget)
    /\ scrollEventPending' = (elScrollLeft' # elScrollLeft)
    /\ pc' = "flush"
    /\ lastOp' = "initialScroll"
    /\ UNCHANGED <<segmentWidth, initialOffsetX, clientWidth, scrollLeft,
                   viewport, notified, lastRaw,
                   wheelToHorizontal>>
    /\ defaultPrevented' = FALSE
    /\ UNCHANGED nonGardenVars

\* the first render's passive effects run before the queued update is
\* rendered: notifyViewport with the first render's scrollLeft (0)
FirstNotify ==
    /\ pc = "flush"
    /\ viewport' = ViewportEvent(scrollLeft, clientWidth)
    /\ notified' = TRUE
    /\ pc' = "commit"
    /\ lastOp' = "firstNotify"
    /\ UNCHANGED <<segmentWidth, initialOffsetX, clientWidth, elScrollLeft,
                   scrollLeft, scrollEventPending, lastRaw,
                   wheelToHorizontal>>
    /\ defaultPrevented' = FALSE
    /\ UNCHANGED nonGardenVars

\* setScrollLeft(target) is rendered; notifyViewport changed, its effect runs
CommitInitialScroll ==
    /\ pc = "commit"
    /\ scrollLeft' = InitialTarget
    /\ viewport' = ViewportEvent(scrollLeft', clientWidth)
    /\ pc' = "ready"
    /\ lastOp' = "mount"
    /\ UNCHANGED <<segmentWidth, initialOffsetX, clientWidth, elScrollLeft,
                   scrollEventPending, notified, lastRaw,
                   wheelToHorizontal>>
    /\ defaultPrevented' = FALSE
    /\ UNCHANGED nonGardenVars

\* handleScroll, run with el.scrollLeft = x; queued says whether a scroll
\* event is already waiting. The state update re-renders, and the notify
\* effect runs when the scrollLeft state changed.
handleScroll(x, queued) ==
    /\ elScrollLeft' = ClampScroll(Wrapped(x))
    /\ scrollLeft' = elScrollLeft'
    /\ scrollEventPending' = (queued \/ elScrollLeft' # x)
    /\ viewport' = IF scrollLeft' # scrollLeft
                   THEN ViewportEvent(scrollLeft', clientWidth)
                   ELSE viewport
    /\ lastRaw' = x

\* (mutant) the wheel delta with the horizontal part counted in full
WheelDeltaFull(deltaY, deltaX) == deltaY + deltaX

\* const delta = e.deltaY + e.deltaX * 0.5 (deltaX is even here)
WheelDelta(deltaY, deltaX) == deltaY + deltaX \div 2

\* a wheel event reaches window.  The effect attached onWheel only if
\* wheelToHorizontal; onWheel leaves a shift+wheel event to the browser;
\* otherwise it prevents the default, moves el.scrollLeft by the delta (the
\* DOM keeps the position inside the scroll range) and runs handleScroll
onWheel(deltaY, deltaX, shiftKey) ==
    /\ pc = "ready"
    /\ IF ~wheelToHorizontal
       THEN /\ lastOp' = "wheelOff"
            /\ defaultPrevented' = FALSE
            /\ UNCHANGED <<elScrollLeft, scrollLeft, scrollEventPending,
                           viewport, lastRaw>>
       ELSE IF shiftKey
       THEN /\ lastOp' = "wheelShift"
            /\ defaultPrevented' = FALSE
            /\ UNCHANGED <<elScrollLeft, scrollLeft, scrollEventPending,
                           viewport, lastRaw>>
       ELSE LET delta == WheelDelta(deltaY, deltaX)
                moved == ClampScroll(elScrollLeft + delta)
            IN  /\ defaultPrevented' = TRUE
                /\ handleScroll(moved, scrollEventPending \/ moved # elScrollLeft)
                /\ lastOp' = "wheel"
    /\ UNCHANGED <<segmentWidth, initialOffsetX, clientWidth, pc, notified,
                   wheelToHorizontal>>
    /\ UNCHANGED nonGardenVars

\* the browser scrolls the container itself (touch, keys, shift+wheel)
NativeScroll(d) ==
    /\ pc = "ready"
    /\ elScrollLeft' = ClampScroll(elScrollLeft + d)
    /\ elScrollLeft' # elScrollLeft
    /\ scrollEventPending' = TRUE
    /\ lastOp' = "native"
    /\ UNCHANGED <<segmentWidth, initialOffsetX, clientWidth, scrollLeft, pc,
                   viewport, notified, lastRaw,
                   wheelToHorizontal>>
    /\ defaultPrevented' = FALSE
    /\ UNCHANGED nonGardenVars

\* onScroll={handleScroll}: the queued scroll event is dispatched
OnScroll ==
    /\ pc = "ready"
    /\ scrollEventPending
    /\ handleScroll(elScrollLeft, FALSE)
    /\ lastOp' = "scroll"
    /\ defaultPrevented' = FALSE
    /\ UNCHANGED <<segmentWidth, initialOffsetX, clientWidth, pc, notified,
                   wheelToHorizontal>>
    /\ UNCHANGED nonGardenVars

\* the container is resized to width w: the DOM re-clamps the scroll
\* position and the ResizeObserver calls notifyViewport
OnResize(w) ==
    /\ pc = "ready"
    /\ clientWidth' = w
    /\ elScrollLeft' = clamp(elScrollLeft, 0, Max(0, 3 * segmentWidth - w))
    /\ scrollEventPending' = (scrollEventPending \/ elScrollLeft' # elScrollLeft)
    /\ viewport' = ViewportEvent(scrollLeft, w)
    /\ lastOp' = "resize"
    /\ UNCHANGED <<segmentWidth, initialOffsetX, scrollLeft, pc, notified,
                   lastRaw,
                   wheelToHorizontal>>
    /\ defaultPrevented' = FALSE
    /\ UNCHANGED nonGardenVars

Next ==
    \/ InitialScroll /\ UNCHANGED wheelLog
    \/ FirstNotify /\ UNCHANGED wheelLog
    \/ CommitInitialScroll /\ UNCHANGED wheelLog
    \/ \E e \in WheelEvents(segmentWidth) :
          onWheel(e.deltaY, e.deltaX, e.shiftKey) /\ UNCHANGED wheelLog
    \/ \E d \in Steps :
          NativeScroll(d * WheelUnit(segmentWidth)) /\ UNCHANGED wheelLog
    \/ OnScroll /\ UNCHANGED wheelLog
    \/ \E w \in ViewportWidths(segmentWidth) : OnResize(w) /\ UNCHANGED wheelLog

Spec == Init /\ [][Next]_vars

\* The same garden with every wheel dispatch put on record: the event, and
\* the engine's state and the localX rendered when it arrived.
WheelInit ==
    /\ Init
    /\ initialOffsetX \in {0, HostInitialOffsetX}

\* what the engine holds: the raw position, its reactive copy, the queued
\* scroll event and the viewport last emitted
engineState == <<elScrollLeft, scrollLeft, scrollEventPending, viewport>>

LogWheel(e) ==
    wheelLog' = [logged |-> TRUE, event |-> e, engine |-> engineState,
                 el |-> elScrollLeft, state |-> scrollLeft]

ClearLog == wheelLog' = NoWheelLog

WheelNext ==
    \/ InitialScroll /\ ClearLog
    \/ FirstNotify /\ ClearLog
    \/ CommitInitialScroll /\ ClearLog
    \/ \E e \in WheelEvents(segmentWidth) :
          onWheel(e.deltaY, e.deltaX, e.shiftKey) /\ LogWheel(e)
    \/ \E d \in Steps : NativeScroll(d * WheelUnit(segmentWidth)) /\ ClearLog
    \/ OnScroll /\ ClearLog
    \/ \E w \in ViewportWidths(segmentWidth) : OnResize(w) /\ ClearLog

SpecWheel == WheelInit /\ [][WheelNext]_vars

TypeOK ==
    /\ elScrollLeft \in 0 .. MaxScroll
    /\ scrollLeft \in 0 .. 3 * segmentWidth
    /\ pc \in {"render1", "flush", "commit", "ready"}


-----------------------------------------------------------------------------
(* Properties of the garden *)

\* handleScroll was the last thing to touch the scroll position
AfterHandleScroll == lastOp \in {"wheel", "scroll"}
\* ... and it moved the position it read
Snapped == AfterHandleScroll /\ elScrollLeft # lastRaw

\* C1: in every reachable state, the one before the initial scroll position
\* is applied included, 0 <= localX < segmentWidth.
C1_LocalXInRange == 0 <= localX /\ localX < segmentWidth

\* a scroll has left the position left of the middle segment, where the
\* remainder is negative and localX is the corrected value
C1_Witness ==
    /\ AfterHandleScroll
    /\ scrollLeft < middleStart
    /\ localX = scrollLeft
    /\ localX > 0

JustMounted == lastOp = "mount"
InMiddleSegment(x) == middleStart <= x /\ x < 2 * middleStart

C5_ShiftLaw ==
    \A pn \in Parallaxes : \A i \in 0 .. 2 :
        LET shift == renderLayer(pn)[i].translateX
        IN  /\ pn >= ParDen => shift = 0
            /\ pn <= 0 => shift = -localX * ParDen
            /\ (0 < pn /\ pn < ParDen) => shift = -localX * (ParDen - pn)

\* layers are rendered at a nonzero localX reached by scrolling
C5_Witness ==
    /\ AfterHandleScroll
    /\ localX > 0
    /\ renderLayer(ParDen + 1)[2].translateX = 0
    /\ renderLayer(-1)[2].translateX = -localX * ParDen

\* C6 as stated: for p1 < p2 and nonzero localX, |shift(p1)| <= |shift(p2)|.
C6_AsStated ==
    \A p1, p2 \in Parallaxes :
        (p1 < p2 /\ localX # 0) =>
            Abs(renderLayerSegment(p1, 1).translateX)
                <= Abs(renderLayerSegment(p2, 1).translateX)

\* C6 (amended): for p1 < p2, |shift(p1)| >= |shift(p2)| at every localX: the
\* shift's magnitude never grows with the parallax factor.
C6_ShiftAntitone ==
    \A p1, p2 \in Parallaxes :
        p1 < p2 =>
            Abs(renderLayerSegment(p1, 1).translateX)
                >= Abs(renderLayerSegment(p2, 1).translateX)

\* at a nonzero localX the factor-0 layer is shifted strictly more than the
\* factor-1 layer
C6_Witness ==
    /\ AfterHandleScroll
    /\ localX # 0
    /\ Abs(renderLayerSegment(0, 1).translateX)
          > Abs(renderLayerSegment(ParDen, 1).translateX)

\* C7: every event emitted to the host carries offsetX = localX.
C7_OffsetIsLocalX == notified => viewport.offsetX = localX

\* C8: every event emitted to the host has 0 <= offsetX < segmentWidth.
C8_OffsetInRange ==
    notified => (0 <= viewport.offsetX /\ viewport.offsetX < segmentWidth)

\* C20: in a container no wider than a segment, after every handleScroll
\* run every layer with a parallax factor in [0,1] is rendered as three
\* copies at left = 0, segmentWidth, 2 * segmentWidth, one segment wide, with
\* one shift, and the visible window [scrollLeft, scrollLeft + clientWidth]
\* lies inside [shift, 3 * segmentWidth + shift] (shifts are in units of
\* 1 / ParDen pixels).
C20_WindowCovered ==
    (AfterHandleScroll /\ clientWidth <= segmentWidth) =>
        /\ scrollLeft = elScrollLeft
        /\ \A pn \in 0 .. ParDen :
              LET copies == renderLayer(pn)
                  shift == copies[0].translateX
              IN  /\ DOMAIN copies = 0 .. 2
                  /\ \A i \in 0 .. 2 :
                        /\ copies[i].left = i * segmentWidth
                        /\ copies[i].width = segmentWidth
                        /\ copies[i].translateX = shift
                  /\ shift <= ParDen * elScrollLeft
                  /\ ParDen * (elScrollLeft + clientWidth)
                        <= ParDen * 3 * segmentWidth + shift

\* after a handleScroll run the window of a container one segment wide ends
\* exactly where the copies of the factor-0 layer end
C20_Witness ==
    /\ AfterHandleScroll
    /\ clientWidth = segmentWidth
    /\ localX > 0
    /\ ParDen * (elScrollLeft + clientWidth)
          = ParDen * 3 * segmentWidth + renderLayer(0)[2].translateX

\* a wheel event has just been dispatched
WheelDispatched == wheelLog.logged

\* twice the delta of the event on record, 2 * (deltaY + 0.5 * deltaX)
LoggedDelta2 == 2 * wheelLog.event.deltaY + wheelLog.event.deltaX

\* C21 as stated: with wheelToHorizontal on, a wheel event without shift
\* adds exactly deltaY + 0.5 * deltaX to the scroll position, prevents the
\* default and runs the wrap rule on the sum; one with shift changes neither
\* the scroll position nor the scrollLeft state and prevents nothing; with
\* wheelToHorizontal off no wheel event changes the engine's state.
C21_AsStated ==
    WheelDispatched =>
        IF ~wheelToHorizontal THEN engineState = wheelLog.engine
        ELSE IF wheelLog.event.shiftKey
        THEN /\ elScrollLeft = wheelLog.el
             /\ scrollLeft = wheelLog.state
             /\ ~defaultPrevented
        ELSE /\ 2 * lastRaw = 2 * wheelLog.el + LoggedDelta2
             /\ defaultPrevented
             /\ elScrollLeft = Wrapped(lastRaw)
             /\ scrollLeft = elScrollLeft

\* the position a container at x holds after x + half / 2 is assigned to
\* its scrollLeft
MovedBy(x, half) ==
    IF 2 * x + half < 0 THEN 0
    ELSE IF 2 * x + half > 2 * MaxScroll THEN MaxScroll
    ELSE (2 * x + half) \div 2

\* C21 (amended): with wheelToHorizontal on, a wheel event without shift
\* moves the scroll position by deltaY + 0.5 * deltaX as far as the scroll
\* range [0, 3 * segmentWidth - clientWidth] allows (exactly by it when the
\* sum lies in the range), prevents the default and runs the wrap rule on
\* the position reached; one with shift changes neither the scroll position
\* nor the scrollLeft state and prevents nothing; with wheelToHorizontal off
\* no wheel event changes the engine's state.
C21_WheelMapping ==
    WheelDispatched =>
        IF ~wheelToHorizontal
        THEN engineState = wheelLog.engine /\ ~defaultPrevented
        ELSE IF wheelLog.event.shiftKey
        THEN /\ elScrollLeft = wheelLog.el
             /\ scrollLeft = wheelLog.state
             /\ ~defaultPrevented
        ELSE /\ lastRaw = MovedBy(wheelLog.el, LoggedDelta2)
             /\ (/\ 0 <= 2 * wheelLog.el + LoggedDelta2
                 /\ 2 * wheelLog.el + LoggedDelta2 <= 2 * MaxScroll)
                   => 2 * lastRaw = 2 * wheelLog.el + LoggedDelta2
             /\ defaultPrevented
             /\ elScrollLeft = Wrapped(lastRaw)
             /\ scrollLeft = elScrollLeft

\* a wheel event without shift moved the position across the left
\* boundary, its default was prevented and the wrap rule brought it back
C21_Witness ==
    /\ WheelDispatched
    /\ lastOp = "wheel"
    /\ wheelLog.event.deltaX # 0
    /\ wheelToHorizontal
    /\ defaultPrevented
    /\ 2 * lastRaw < segmentWidth
    /\ elScrollLeft = lastRaw + segmentWidth

\* C27: after every completed handleScroll call the stored scroll position
\* lies in [segmentWidth/2, segmentWidth*1.5], whatever position in
\* [0, 3 * segmentWidth - clientWidth] the handler found.
C27_PositionInBand ==
    AfterHandleScroll =>
        /\ segmentWidth <= 2 * scrollLeft
        /\ 2 * scrollLeft <= 3 * segmentWidth

\* what handleScroll achieves: a position below 2.5 segments ends in the band
PositionInBandBelow ==
    (AfterHandleScroll /\ 2 * lastRaw <= 5 * segmentWidth) =>
        /\ segmentWidth <= 2 * scrollLeft
        /\ 2 * scrollLeft <= 3 * segmentWidth

\* the delta of the wheel event on record
LoggedDelta == LoggedDelta2 \div 2

\* a wheel event without shift, of a delta of at most half a segment, met a
\* raw position in [segmentWidth/2, segmentWidth*1.5] in a container no
\* wider than a segment, and has been handled
SmallWheelInBand ==
    /\ WheelDispatched
    /\ lastOp = "wheel"
    /\ clientWidth <= segmentWidth
    /\ segmentWidth <= 2 * wheelLog.el
    /\ 2 * wheelLog.el <= 3 * segmentWidth
    /\ Abs(LoggedDelta2) <= segmentWidth

\* C28: from a raw position in [segmentWidth/2, segmentWidth*1.5] with
\* clientWidth <= segmentWidth, a wheel delta d with |d| <= segmentWidth/2
\* followed by handleScroll gives localX' = (localX + d) mod segmentWidth,
\* localX being the local coordinate of the raw position; the whole delta
\* is applied and the position is back in the band, so the next delta of
\* the same direction is applied in full as well.
C28_NoMovementLost ==
    SmallWheelInBand =>
        /\ localX = (LocalXOf(wheelLog.el) + LoggedDelta) % segmentWidth
        /\ lastRaw = wheelLog.el + LoggedDelta
        /\ segmentWidth <= 2 * elScrollLeft
        /\ 2 * elScrollLeft <= 3 * segmentWidth

\* a delta of half a segment took the position from the band's right end
\* across the end of the middle segment, and localX rolled over
C28_Witness ==
    /\ SmallWheelInBand
    /\ 2 * wheelLog.el = 3 * segmentWidth
    /\ LoggedDelta2 = segmentWidth
    /\ Snapped
    /\ localX = 0

\* the on-screen position, times ParDen and modulo one segment, of the
\* copies of a layer with parallax pn / ParDen when the scrollLeft state is
\* s: segment left + shift - scrollLeft
ScreenPos(s, pn) ==
    (parallaxShift(LocalXOf(s), pn) - ParDen * s) % (ParDen * segmentWidth)

\* the distance of two positions on the circle of one segment
CircleDist(a, b) ==
    Min((a - b) % (ParDen * segmentWidth), (b - a) % (ParDen * segmentWidth))

\* C29: for every layer with parallax p in [0,1] and every scroll delta d,
\* rollovers of localX included, the layer's on-screen position modulo
\* segmentWidth changes by at most |d|.
C29_SeamlessLayers ==
    (WheelDispatched /\ lastOp = "wheel" /\ wheelLog.state = wheelLog.el) =>
        \A pn \in 0 .. ParDen :
            CircleDist(ScreenPos(scrollLeft, pn), ScreenPos(wheelLog.state, pn))
                <= ParDen * Abs(lastRaw - wheelLog.el)

\* what holds of the code: the layer with parallax 1 moves by the delta
\* applied, no more
SeamlessAtParallaxOne ==
    (WheelDispatched /\ lastOp = "wheel" /\ wheelLog.state = wheelLog.el) =>
        CircleDist(ScreenPos(scrollLeft, ParDen),
                   ScreenPos(wheelLog.state, ParDen))
            <= ParDen * Abs(lastRaw - wheelLog.el)

\* ... and away from a rollover a layer with parallax p moves by (2 - p)
\* times the delta
NoRollover == LocalXOf(scrollLeft) - LocalXOf(wheelLog.state) = lastRaw - wheelLog.el
SpeedAwayFromRollover ==
    (/\ WheelDispatched /\ lastOp = "wheel" /\ wheelLog.state = wheelLog.el
     /\ NoRollover) =>
        \A pn \in 0 .. ParDen :
            (ScreenPos(scrollLeft, pn) - ScreenPos(wheelLog.state, pn))
                    % (ParDen * segmentWidth)
                = (-(2 * ParDen - pn) * (lastRaw - wheelLog.el))
                    % (ParDen * segmentWidth)

\* violated: at a rollover by one pixel the half-parallax layer jumps
NoRolloverJump ==
    ~(/\ WheelDispatched /\ lastOp = "wheel" /\ wheelLog.state = wheelLog.el
      /\ segmentWidth = SegSmall
      /\ lastRaw - wheelLog.el = 1
      /\ LocalXOf(wheelLog.state) = segmentWidth - 1
      /\ CircleDist(ScreenPos(scrollLeft, 2), ScreenPos(wheelLog.state, 2))
            > 2 * ParDen)


-----------------------------------------------------------------------------
(* buildLayersFromBiome (p5/sketch.ts)                                      *)
(*                                                                         *)
(* parallax and opacity are in hundredths, opacityMultiplier too, so an     *)
(* effective opacity is in ten-thousandths.                                 *)

\* a destructuring default: field f of record r, d when r has none
Field(r, f, d) == IF f \in DOMAIN r THEN r[f] ELSE d

\* a number as the template literal prints it
Digits == <<"0", "1", "2", "3", "4", "5", "6", "7", "8", "9">>
RECURSIVE NatStr(_)
NatStr(n) == IF n < 10 THEN Digits[n + 1]
             ELSE NatStr(n \div 10) \o Digits[(n % 10) + 1]
NumStr(n) == IF n < 0 THEN "-" \o NatStr(-n) ELSE NatStr(n)

\* (mutant) a key that leaves the opacity out
LayerKeyNoOpacity(p, z, b, o) ==
    NumStr(p) \o "|" \o NumStr(z) \o "|" \o NumStr(b)

\* const key = `${effectiveParallax}|${effectiveZ}|${effectiveBaseY}|${effectiveOpacity}`
LayerKey(p, z, b, o) ==
    NumStr(p) \o "|" \o NumStr(z) \o "|" \o NumStr(b) \o "|" \o NumStr(o)

\* layerBuckets.get(key): the entry's position, 0 when there is none
MapGet(entries, key) ==
    IF \E i \in 1 .. Len(entries) : entries[i].key = key
    THEN CHOOSE i \in 1 .. Len(entries) : entries[i].key = key
    ELSE 0

RECURSIVE ReverseSeq(_)
ReverseSeq(q) == IF q = <<>> THEN <<>> ELSE Append(ReverseSeq(Tail(q)), Head(q))

\* (mutant) the buckets in reverse insertion order
MapValuesReversed(entries) ==
    ReverseSeq([i \in 1 .. Len(entries) |-> entries[i].bucket])

\* layerBuckets.values(): the buckets in insertion order
MapValues(entries) == [i \in 1 .. Len(entries) |-> entries[i].bucket]

(* Inputs: biomes of one or two groups *)

\* the k-th asset of a group, without overrides and with one override each
AssetVariants(k) ==
    LET base == [name |-> "thistle", index |-> k]
    IN  { base,
          base @@ [parallaxOffset |-> 15],
          base @@ [zIndexOffset |-> 1],
          base @@ [opacityMultiplier |-> 50] }

AssetListsOf(n) ==
    { a \in [1 .. n -> UNION { AssetVariants(k) : k \in 1 .. n }] :
         \A k \in 1 .. n : a[k] \in AssetVariants(k) }

\* the first group has up to MaxAssets assets, a second group up to two
AssetLists == UNION { AssetListsOf(n) : n \in 0 .. MaxAssets }
ShortAssetLists == UNION { AssetListsOf(n) : n \in 0 .. 2 }

\* meadowBiome's flora_group_2_near, a second group with the same defaults,
\* and the background strip (no opacity given)
FloraNear(assets) ==
    [id |-> "flora_group_2_near", groupFolder |-> "flora_group_2",
     parallax |-> 90, zIndex |-> 50, baseY |-> ANCHOR, opacity |-> 65,
     assets |-> assets]
FloraTwin(assets) ==
    [id |-> "flora_group_2_twin", groupFolder |-> "flora_group_2",
     parallax |-> 90, zIndex |-> 50, baseY |-> ANCHOR, opacity |-> 65,
     assets |-> assets]
Background(assets) ==
    [id |-> "background", groupFolder |-> "background",
     parallax |-> 99, zIndex |-> -100, baseY |-> ANCHOR, repeatX |-> TRUE,
     assets |-> assets]

\* the assets of a strip group: one asset, as meadowBiome's background has,
\* or one asset that gives explicit positions as well
StripAssetLists ==
    AssetListsOf(1)
        \cup { <<[name |-> "bg", index |-> 0, xPositions |-> <<512, 2048>>]>> }

\* a positioned asset of a group that does not tile
PositionedAssetLists ==
    { <<[name |-> "thistle", index |-> 1, xPositions |-> <<512, 2048>>]>> }

Biomes ==
    { [id |-> "meadow", groups |-> <<FloraNear(a)>>] :
         a \in AssetLists \cup PositionedAssetLists }
    \cup { [id |-> "meadow", groups |-> <<FloraNear(a), FloraTwin(b)>>] :
              a \in AssetLists, b \in ShortAssetLists }
    \cup { [id |-> "meadow", groups |-> <<Background(b), FloraNear(a)>>] :
              b \in StripAssetLists, a \in ShortAssetLists }

\* xPositions: repeatX ? undefined : xPositions ?? []
SpriteXPositions(repeatX, asset) ==
    IF repeatX THEN [defined |-> FALSE, values |-> <<>>]
    ELSE [defined |-> TRUE, values |-> Field(asset, "xPositions", <<>>)]

(* The builder, one loop iteration per step *)

\* the garden is not mounted while layers are built
GardenIdle ==
    /\ segmentWidth = DefaultSegmentWidth
    /\ initialOffsetX = 0
    /\ clientWidth = 0
    /\ elScrollLeft = 0
    /\ scrollLeft = 0
    /\ pc = "unmounted"
    /\ scrollEventPending = FALSE
    /\ viewport = [offsetX |-> 0, viewportW |-> 0]
    /\ notified = FALSE
    /\ lastRaw = -1
    /\ lastOp = "none"
    /\ wheelToHorizontal = TRUE
    /\ defaultPrevented = FALSE
    /\ wheelLog = NoWheelLog

\* buildLayersFromBiome(biome) is called: const layers = []
BuildInit ==
    /\ GardenIdle
    /\ HashIdle
    /\ RngIdle
    /\ DotsIdle
    /\ LateIdle
    /\ biome \in Biomes
    /\ bpc = "group"
    /\ gi = 1
    /\ ai = 0
    /\ layerBuckets = <<>>
    /\ layers = <<>>
    /\ prevLayers = <<>>
    /\ calls = 0

\* for (const group of biome.groups): a new Map for the next group
EnterGroup ==
    /\ bpc = "group"
    /\ gi <= Len(biome.groups)
    /\ layerBuckets' = <<>>
    /\ ai' = 1
    /\ bpc' = "asset"
    /\ UNCHANGED <<biome, gi, layers, prevLayers, calls>>
    /\ UNCHANGED nonBuildVars

\* for (const asset of assets): one asset into its bucket
AddAsset ==
    /\ bpc = "asset"
    /\ ai <= Len(biome.groups[gi].assets)
    /\ LET group == biome.groups[gi]
           asset == group.assets[ai]
           groupOpacity == Field(group, "opacity", 100)
           repeatX == Field(group, "repeatX", FALSE)
           effectiveParallax == group.parallax + Field(asset, "parallaxOffset", 0)
           effectiveZ == group.zIndex + Field(asset, "zIndexOffset", 0)
           effectiveBaseY == group.baseY
           effectiveOpacity == groupOpacity * Field(asset, "opacityMultiplier", 100)
           key == LayerKey(effectiveParallax, effectiveZ, effectiveBaseY,
                           effectiveOpacity)
           at == MapGet(layerBuckets, key)
           sprite == [src |-> <<group.groupFolder, asset.name, asset.index>>,
                      repeatX |-> repeatX,
                      xPositions |-> SpriteXPositions(repeatX, asset),
                      origin |-> <<gi, ai>>]   \* ghost: the asset it was made from
           fresh == [id |-> group.id \o "-" \o NumStr(Len(layers)) \o "-"
                               \o NumStr(Len(layerBuckets)),
                     parallax |-> effectiveParallax,
                     zIndex |-> effectiveZ,
                     baseY |-> effectiveBaseY,
                     opacity |-> effectiveOpacity,
                     sprites |-> <<sprite>>]
       IN  layerBuckets' =
              IF at = 0
              THEN Append(layerBuckets, [key |-> key, bucket |-> fresh])
              ELSE [layerBuckets EXCEPT
                       ![at].bucket.sprites = Append(@, sprite)]
    /\ ai' = ai + 1
    /\ UNCHANGED <<biome, bpc, gi, layers, prevLayers, calls>>
    /\ UNCHANGED nonBuildVars

\* for (const bucket of layerBuckets.values()) layers.push(...)
FlushGroup ==
    /\ bpc = "asset"
    /\ ai > Len(biome.groups[gi].assets)
    /\ layers' = layers \o MapValues(layerBuckets)
    /\ gi' = gi + 1
    /\ bpc' = "group"
    /\ UNCHANGED <<biome, ai, layerBuckets, prevLayers, calls>>
    /\ UNCHANGED nonBuildVars

\* return layers
Return ==
    /\ bpc = "group"
    /\ gi > Len(biome.groups)
    /\ bpc' = "done"
    /\ calls' = calls + 1
    /\ UNCHANGED <<biome, gi, ai, layerBuckets, layers, prevLayers>>
    /\ UNCHANGED nonBuildVars

\* buildLayersFromBiome is called once more on the same biome
BuildAgain ==
    /\ bpc = "done"
    /\ calls = 1
    /\ prevLayers' = layers
    /\ layers' = <<>>
    /\ layerBuckets' = <<>>
    /\ gi' = 1
    /\ ai' = 0
    /\ bpc' = "group"
    /\ UNCHANGED <<biome, calls>>
    /\ UNCHANGED nonBuildVars

BuildNext ==
    \/ EnterGroup
    \/ AddAsset
    \/ FlushGroup
    \/ Return
    \/ BuildAgain

SpecBuild == BuildInit /\ [][BuildNext]_vars


-----------------------------------------------------------------------------
(* Properties of buildLayersFromBiome *)

BuildDone == bpc = "done"

\* the assets of the biome, as <<group, asset>> positions
AssetIds ==
    { <<g, k>> : g \in 1 .. Len(biome.groups), k \in 1 .. MaxAssets + 1 }
        \cap { ga \in (1 .. Len(biome.groups)) \X (1 .. MaxAssets + 1) :
                  ga[2] <= Len(biome.groups[ga[1]].assets) }

\* where the sprite made from an asset sits: <<layer, position in the layer>>
SpritePlaces(ga) ==
    { ij \in (1 .. Len(layers)) \X (1 .. MaxAssets + 1) :
          /\ ij[2] <= Len(layers[ij[1]].sprites)
          /\ layers[ij[1]].sprites[ij[2]].origin = ga }

LayerOfAsset(ga) == (CHOOSE ij \in SpritePlaces(ga) : TRUE)[1]

RECURSIVE SumLens(_)
SumLens(q) == IF q = <<>> THEN 0 ELSE Len(Head(q)) + SumLens(Tail(q))

\* the effective tuple of an asset, from the configuration
EffectiveTuple(ga) ==
    LET group == biome.groups[ga[1]]
        asset == group.assets[ga[2]]
    IN  << group.parallax
              + (IF "parallaxOffset" \in DOMAIN asset THEN asset.parallaxOffset ELSE 0),
           group.zIndex
              + (IF "zIndexOffset" \in DOMAIN asset THEN asset.zIndexOffset ELSE 0),
           group.baseY,
           (IF "opacity" \in DOMAIN group THEN group.opacity ELSE 100)
              * (IF "opacityMultiplier" \in DOMAIN asset
                 THEN asset.opacityMultiplier ELSE 100) >>

NoOverrides(asset) ==
    DOMAIN asset \cap {"parallaxOffset", "zIndexOffset", "opacityMultiplier"} = {}

\* the layers holding sprites of group g
LayersOfGroup(g) ==
    { i \in 1 .. Len(layers) :
         \E j \in 1 .. Len(layers[i].sprites) : layers[i].sprites[j].origin[1] = g }

\* C9: when buildLayersFromBiome returns, every asset is exactly one sprite
\* of exactly one layer and there are no other sprites; two assets of one
\* group share a layer iff their effective tuples are equal; no layer holds
\* sprites of two groups; and a group whose assets (two or more) share
\* parallax 0.9, zIndex 50, baseY 1024, opacity 0.65 without overrides gives
\* exactly one layer, holding all of them.
C9_Bucketing ==
    BuildDone =>
        /\ \A ga \in AssetIds : Cardinality(SpritePlaces(ga)) = 1
        /\ SumLens([i \in 1 .. Len(layers) |-> layers[i].sprites])
              = Cardinality(AssetIds)
        /\ \A ga, gb \in AssetIds :
              ga[1] = gb[1] =>
                 (LayerOfAsset(ga) = LayerOfAsset(gb)
                     <=> EffectiveTuple(ga) = EffectiveTuple(gb))
        /\ \A ga, gb \in AssetIds :
              ga[1] # gb[1] => LayerOfAsset(ga) # LayerOfAsset(gb)
        /\ \A ga \in AssetIds :
              LET l == layers[LayerOfAsset(ga)]
              IN  <<l.parallax, l.zIndex, l.baseY, l.opacity>> = EffectiveTuple(ga)
        /\ \A g \in 1 .. Len(biome.groups) :
              LET group == biome.groups[g]
              IN  (/\ group.parallax = 90 /\ group.zIndex = 50
                   /\ group.baseY = 1024 /\ Field(group, "opacity", 100) = 65
                   /\ Len(group.assets) >= 2
                   /\ \A k \in 1 .. Len(group.assets) : NoOverrides(group.assets[k]))
                  => /\ Cardinality(LayersOfGroup(g)) = 1
                     /\ \A i \in LayersOfGroup(g) :
                           Len(layers[i].sprites) = Len(group.assets)

\* two groups with the same defaults: the first, without overrides, became
\* one layer; the second was split by an override and not merged into it
C9_Witness ==
    /\ BuildDone
    /\ Len(biome.groups) = 2
    /\ biome.groups[2].parallax = biome.groups[1].parallax
    /\ Len(biome.groups[1].assets) = 2
    /\ \A k \in 1 .. 2 : NoOverrides(biome.groups[1].assets[k])
    /\ Len(biome.groups[2].assets) = 2
    /\ NoOverrides(biome.groups[2].assets[1])
    /\ "opacityMultiplier" \in DOMAIN biome.groups[2].assets[2]
    /\ Len(layers) = 3
    /\ Len(layers[1].sprites) = 2

\* the position of the first asset of layer i, as <<group, asset>>
FirstAsset(i) == layers[i].sprites[1].origin
Before(ga, gb) == ga[1] < gb[1] \/ (ga[1] = gb[1] /\ ga[2] < gb[2])

\* C10: when buildLayersFromBiome returns, the layers stand in group order
\* and, within a group, in the order in which their tuples were first seen
\* (a layer's first asset comes before the next layer's first asset, and is
\* the first asset of its group with that tuple); the sprites of a layer
\* keep asset order; and a second call on the same biome returns the same
\* layers, ids and sprites included.
C10_OrderStable ==
    BuildDone =>
        /\ \A i \in 1 .. Len(layers) : layers[i].sprites # <<>>
        /\ \A i \in 1 .. Len(layers) - 1 : Before(FirstAsset(i), FirstAsset(i + 1))
        /\ \A i \in 1 .. Len(layers) : \A ga \in AssetIds :
              (ga[1] = FirstAsset(i)[1] /\ EffectiveTuple(ga) = EffectiveTuple(FirstAsset(i)))
                 => ~Before(ga, FirstAsset(i))
        /\ \A i \in 1 .. Len(layers) : \A j \in 1 .. Len(layers[i].sprites) - 1 :
              Before(layers[i].sprites[j].origin, layers[i].sprites[j + 1].origin)
        /\ calls = 2 => layers = prevLayers

\* a second call has returned for a group whose second tuple was seen
\* between two assets of its first tuple
C10_Witness ==
    /\ BuildDone
    /\ calls = 2
    /\ Len(layers) >= 2
    /\ Len(layers[1].sprites) = 2
    /\ layers[1].sprites[1].origin = <<1, 1>>
    /\ layers[1].sprites[2].origin = <<1, 3>>
    /\ FirstAsset(2) = <<1, 2>>
    /\ layers = prevLayers

\* C11: every layer buildLayersFromBiome returns has 0 <= parallax <= 1 and
\* 0 <= opacity <= 1 (parallax in hundredths, opacity in ten-thousandths),
\* whatever the per-asset parallaxOffset and opacityMultiplier are.
C11_LayersInUnitRange ==
    BuildDone =>
        \A i \in 1 .. Len(layers) :
            /\ 0 <= layers[i].parallax /\ layers[i].parallax <= 100
            /\ 0 <= layers[i].opacity /\ layers[i].opacity <= 10000

\* a group that tiles (repeatX) and has an asset with explicit xPositions
Contradictory(group) ==
    /\ Field(group, "repeatX", FALSE)
    /\ \E k \in 1 .. Len(group.assets) : "xPositions" \in DOMAIN group.assets[k]

\* C12: buildLayersFromBiome never returns layers for a biome with a group
\* that has repeatX = true and an asset with explicit xPositions.
C12_ContradictionFails ==
    (\E g \in 1 .. Len(biome.groups) : Contradictory(biome.groups[g]))
        => ~BuildDone

-----------------------------------------------------------------------------
(* 32-bit arithmetic on JavaScript Numbers                                  *)
(*                                                                         *)
(* A Number that holds an integer is the record [hi, lo] standing for       *)
(* hi * 2^16 + lo with 0 <= lo < 2^16; hi is any integer, negative for a    *)
(* negative Number.  An unsigned 32-bit value has 0 <= hi < 2^16, a signed  *)
(* one -2^15 <= hi < 2^15.                                                  *)

Half == 65536

\* the Number hi * 2^16 + lo, for any integers hi and lo
NumOf(hi, lo) == [hi |-> hi + (lo \div Half), lo |-> lo % Half]

\* ToUint32, what x >>> 0 gives
ToUint32(n) == [hi |-> n.hi % Half, lo |-> n.lo]

\* ToInt32, what the operands of ^, & and << are converted to
ToInt32(n) ==
    LET u == n.hi % Half
    IN  [hi |-> IF u >= Half \div 2 THEN u - Half ELSE u, lo |-> n.lo]

\* a + b on Numbers, exact (no conversion)
NumAdd(a, b) == NumOf(a.hi + b.hi, a.lo + b.lo)

IsUint32(n) == n.hi \in 0 .. Half - 1 /\ n.lo \in 0 .. Half - 1

\* a double holds every integer below 2^53 in magnitude exactly; this is
\* the narrower |n| < 2^46
ExactDouble(n) == -1073741824 < n.hi /\ n.hi < 1073741824

\* the bit of weight k (a power of two) of a ^ b and of a & b
XorBit(a, b, k) == (((a \div k) + (b \div k)) % 2) * k
AndBit(a, b, k) == ((a \div k) % 2) * ((b \div k) % 2) * k

\* four bits from weight k on
XorNibble(a, b, k) ==
    (XorBit(a, b, k) + XorBit(a, b, 2 * k))
        + (XorBit(a, b, 4 * k) + XorBit(a, b, 8 * k))
AndNibble(a, b, k) ==
    (AndBit(a, b, k) + AndBit(a, b, 2 * k))
        + (AndBit(a, b, 4 * k) + AndBit(a, b, 8 * k))

\* bitwise exclusive or of two naturals below 2^16
BitXor(a, b) ==
    (XorNibble(a, b, 1) + XorNibble(a, b, 16))
        + (XorNibble(a, b, 256) + XorNibble(a, b, 4096))

\* bitwise and of two naturals below 2^16
BitAnd(a, b) ==
    (AndNibble(a, b, 1) + AndNibble(a, b, 16))
        + (AndNibble(a, b, 256) + AndNibble(a, b, 4096))

\* 2^k for 0 <= k <= 15
Pow2(k) ==
    <<1, 2, 4, 8, 16, 32, 64, 128, 256, 512, 1024, 2048, 4096, 8192, 16384,
      32768>>[k + 1]

\* a ^ b: both to 32 bits, bit by bit, the result signed
Xor32(a, b) ==
    LET ua == ToUint32(a)
        ub == ToUint32(b)
    IN  ToInt32([hi |-> BitXor(ua.hi, ub.hi), lo |-> BitXor(ua.lo, ub.lo)])

\* a & b: both to 32 bits, bit by bit, the result signed
And32(a, b) ==
    LET ua == ToUint32(a)
        ub == ToUint32(b)
    IN  ToInt32([hi |-> BitAnd(ua.hi, ub.hi), lo |-> BitAnd(ua.lo, ub.lo)])

\* a << k for 0 <= k < 32: the low 32 bits of a * 2^k, the result signed
Shl32(a, k) ==
    LET u == ToUint32(a)
    IN  IF k < 16
        THEN ToInt32(NumOf(u.hi * Pow2(k), u.lo * Pow2(k)))
        ELSE ToInt32([hi |-> u.lo * Pow2(k - 16), lo |-> 0])

-----------------------------------------------------------------------------
(* The string hashes: hash32 of the dot overlay, fnv1a32 of the story API   *)
(* route and fnv1a32 of the import script.  A string is the sequence of its *)
(* UTF-16 code units, what charCodeAt returns.                              *)

\* 0x811c9dc5
OffsetBasis == [hi |-> 33052, lo |-> 40389]

\* a code unit as a Number
CharCode(c) == [hi |-> 0, lo |-> c]

(* hash32 (StoryDotsOverlay) *)

\* h ^= s.charCodeAt(i)
hash32Xor(h, c) == Xor32(h, CharCode(c))

\* h + ((h << 1) + (h << 4) + (h << 7) + (h << 8) + (h << 24)), before >>> 0
hash32Sum(h) ==
    NumAdd(h, NumAdd(NumAdd(NumAdd(NumAdd(Shl32(h, 1), Shl32(h, 4)),
                                   Shl32(h, 7)), Shl32(h, 8)), Shl32(h, 24)))

\* the for loop from index i on; each round's value is taken (it is always an
\* unsigned 32-bit one) before the next round starts
RECURSIVE hash32Loop(_, _, _)
hash32Loop(s, i, h) ==
    IF i > Len(s) THEN h
    ELSE LET next == ToUint32(hash32Sum(hash32Xor(h, s[i])))
         IN  IF IsUint32(next) THEN hash32Loop(s, i + 1, next) ELSE next

\* (mutant) hash32 returning the signed 32-bit value
hash32Signed(s) == ToInt32(hash32Loop(s, 1, ToUint32(OffsetBasis)))

\* let h = 0x811c9dc5 >>> 0; for ...; return h >>> 0
hash32(s) == ToUint32(hash32Loop(s, 1, ToUint32(OffsetBasis)))

(* fnv1a32 (story API route) *)

\* hash ^= str.charCodeAt(i)
fnv1a32Xor(hash, c) == Xor32(hash, CharCode(c))

\* (mutant) the shift-and-add without the << 7 term
fnv1a32SumNo7(hash) ==
    NumAdd(hash, NumAdd(NumAdd(NumAdd(Shl32(hash, 1), Shl32(hash, 4)),
                               Shl32(hash, 8)), Shl32(hash, 24)))

\* hash + ((hash << 1) + (hash << 4) + (hash << 7) + (hash << 8) + (hash << 24))
fnv1a32Sum(hash) ==
    NumAdd(hash, NumAdd(NumAdd(NumAdd(NumAdd(Shl32(hash, 1), Shl32(hash, 4)),
                                      Shl32(hash, 7)), Shl32(hash, 8)),
                        Shl32(hash, 24)))

RECURSIVE fnv1a32Loop(_, _, _)
fnv1a32Loop(str, i, hash) ==
    IF i > Len(str) THEN hash
    ELSE LET next == ToUint32(fnv1a32Sum(fnv1a32Xor(hash, str[i])))
         IN  IF IsUint32(next) THEN fnv1a32Loop(str, i + 1, next) ELSE next

\* let hash = 0x811c9dc5; for ...; return hash >>> 0
fnv1a32(str) == ToUint32(fnv1a32Loop(str, 1, OffsetBasis))

(* fnv1a32 (import script) *)

fnv1a32ImportXor(hash, c) == Xor32(hash, CharCode(c))

fnv1a32ImportSum(hash) ==
    NumAdd(hash, NumAdd(NumAdd(NumAdd(NumAdd(Shl32(hash, 1), Shl32(hash, 4)),
                                      Shl32(hash, 7)), Shl32(hash, 8)),
                        Shl32(hash, 24)))

RECURSIVE fnv1a32ImportLoop(_, _, _)
fnv1a32ImportLoop(str, i, hash) ==
    IF i > Len(str) THEN hash
    ELSE LET next == ToUint32(fnv1a32ImportSum(fnv1a32ImportXor(hash, str[i])))
         IN  IF IsUint32(next) THEN fnv1a32ImportLoop(str, i + 1, next) ELSE next

fnv1a32Import(str) == ToUint32(fnv1a32ImportLoop(str, 1, OffsetBasis))

(* Inputs *)

\* longest string enumerated code unit by code unit
MaxStrLen == 3

\* NUL, 'a', 0xff, a high surrogate, 0xffff
CodeUnits == {0, 97, 255, 55357, 65535}

\* a 24-digit hexadecimal id (a MongoDB ObjectId as a string) from the
\* values of its digits
HexId(digits) ==
    [i \in 1 .. Len(digits) |->
        IF digits[i] < 10 THEN 48 + digits[i] ELSE 87 + digits[i]]

\* "65f1c0de0000000db767110f", "65f1c0de0000000bad770862",
\* "65f1c0de0000000426da0e1e"
StoryIdA == HexId(<<6,5,15,1,12,0,13,14,0,0,0,0,0,0,0,13,11,7,6,7,1,1,0,15>>)
StoryIdB == HexId(<<6,5,15,1,12,0,13,14,0,0,0,0,0,0,0,11,10,13,7,7,0,8,6,2>>)
StoryIdC == HexId(<<6,5,15,1,12,0,13,14,0,0,0,0,0,0,0,4,2,6,13,10,0,14,1,14>>)

Strings ==
    UNION { [1 .. n -> CodeUnits] : n \in 0 .. MaxStrLen }
        \cup {StoryIdA, StoryIdB, StoryIdC}

(* The calls *)

HashInit ==
    /\ GardenIdle
    /\ BuildIdle
    /\ RngIdle
    /\ DotsIdle
    /\ LateIdle
    /\ hstr \in Strings
    /\ hres = [f \in HashFns |-> NoWord]
    /\ hprev = [f \in HashFns |-> NoWord]
    /\ hcalls = [f \in HashFns |-> 0]

\* function f is called on the string and returns v
Returned(f, v) ==
    /\ hcalls[f] < 2
    /\ hprev' = [hprev EXCEPT ![f] = hres[f]]
    /\ hres' = [hres EXCEPT ![f] = v]
    /\ hcalls' = [hcalls EXCEPT ![f] = @ + 1]
    /\ UNCHANGED hstr
    /\ UNCHANGED nonHashVars

CallHash32 == Returned("hash32", hash32(hstr))
CallFnv1a32 == Returned("fnv1a32", fnv1a32(hstr))
CallFnv1a32Import == Returned("fnv1a32Import", fnv1a32Import(hstr))

HashNext ==
    \/ CallHash32
    \/ CallFnv1a32
    \/ CallFnv1a32Import

SpecHash == HashInit /\ [][HashNext]_vars

-----------------------------------------------------------------------------
(* Properties of the hashes *)

\* C13: every call of a hash function on any string (the empty one too)
\* returns an integer in [0, 2^32); on the empty string it returns
\* 0x811c9dc5; and a second call on the same string returns what the first
\* returned.
C13_HashPureTotal ==
    \A f \in HashFns :
        hcalls[f] > 0 =>
            /\ IsUint32(hres[f])
            /\ hstr = <<>> => hres[f] = OffsetBasis
            /\ hcalls[f] = 2 => hres[f] = hprev[f]

\* hash32 was called twice on the empty string, and on a string with a
\* result above 2^31
C13_Witness ==
    /\ hcalls["hash32"] = 2
    /\ \/ hstr = <<>> /\ hres["hash32"] = OffsetBasis
       \/ hstr # <<>> /\ hres["hash32"].hi >= Half \div 2

\* reference FNV-1a-32: h := ((h XOR c) * 16777619) mod 2^32, the product
\* taken half by half (16777619 = 256 * 2^16 + 403)
RefRound(h, c) ==
    LET x == [hi |-> h.hi, lo |-> BitXor(h.lo, c)]
    IN  ToUint32(NumOf(x.hi * 403 + x.lo * 256, x.lo * 403))

RECURSIVE RefLoop(_, _, _)
RefLoop(s, i, h) ==
    IF i > Len(s) THEN h
    ELSE LET next == RefRound(h, s[i])
         IN  IF IsUint32(next) THEN RefLoop(s, i + 1, next) ELSE next

RefFnv1a32(s) == RefLoop(s, 1, OffsetBasis)

\* C14: on every string, hash32, the route's fnv1a32 and the import
\* script's fnv1a32 return reference FNV-1a-32 over the code units, and
\* every sum formed before >>> 0 is an integer a double holds exactly.
C14_HashesAreFnv1a ==
    /\ \A f \in HashFns : hcalls[f] > 0 => hres[f] = RefFnv1a32(hstr)
    /\ \A i \in 1 .. Len(hstr) :
          LET h == RefFnv1a32(SubSeq(hstr, 1, i - 1))
          IN  /\ ExactDouble(hash32Sum(hash32Xor(h, hstr[i])))
              /\ ExactDouble(fnv1a32Sum(fnv1a32Xor(h, hstr[i])))
              /\ ExactDouble(fnv1a32ImportSum(fnv1a32ImportXor(h, hstr[i])))

\* all three were called on a string with a code unit above 0xff whose
\* running hash went through a value above 2^31 (negative after ^)
C14_Witness ==
    /\ \A f \in HashFns : hcalls[f] > 0
    /\ Len(hstr) = MaxStrLen
    /\ \E i \in 1 .. Len(hstr) : hstr[i] > 255
    /\ \E i \in 1 .. Len(hstr) :
          hash32Xor(RefFnv1a32(SubSeq(hstr, 1, i - 1)), hstr[i]).hi < 0
    /\ hres["hash32"] = hres["fnv1a32"]
    /\ hres["fnv1a32"] = hres["fnv1a32Import"]

-----------------------------------------------------------------------------
(* The seeded generators: rng01 of the dot overlay and makeRng of GardenArc *)
(*                                                                         *)
(* A returned value is the rational num / den, num and den Numbers.         *)

\* 0x9e3779b9
Golden == [hi |-> 40503, lo |-> 31161]
\* 0xffffffff
AllOnes == [hi |-> 65535, lo |-> 65535]
\* 0x100000000
TwoTo32 == [hi |-> 65536, lo |-> 0]
Zero == [hi |-> 0, lo |-> 0]
One == [hi |-> 0, lo |-> 1]

\* x * 1664525 + 1013904223 for an unsigned 32-bit x, exactly, as
\* top * 2^32 + hi * 2^16 + lo (1664525 = 25 * 2^16 + 26125,
\* 1013904223 = 15470 * 2^16 + 62303)
LcgWide(x) ==
    LET t0 == x.lo * 26125 + 62303
        t1 == x.hi * 26125 + x.lo * 25 + 15470 + (t0 \div Half)
    IN  [top |-> x.hi * 25 + (t1 \div Half), hi |-> t1 % Half, lo |-> t0 % Half]

\* a double holds the wide value exactly: it is below 2^53
WideExact(w) == 0 <= w.top /\ w.top < 2097152

\* (x * 1664525 + 1013904223) >>> 0
LcgStep(x) == [hi |-> LcgWide(x).hi, lo |-> LcgWide(x).lo]

\* rng01: let x = (seed ^ 0x9e3779b9) >>> 0
rng01(seed) == ToUint32(Xor32(seed, Golden))

\* rng01's closure: x after the call, and x / 0xffffffff
rng01Next(x) ==
    [x |-> LcgStep(x), value |-> [num |-> LcgStep(x), den |-> AllOnes]]

\* makeRng: let s = (seed >>> 0) || 1
makeRng(seed) == IF ToUint32(seed) = Zero THEN One ELSE ToUint32(seed)

\* makeRng's closure: s after the call, and (s & 0xffffffff) / 0x100000000
makeRngNext(s0) ==
    [s |-> LcgStep(s0),
     value |-> [num |-> And32(LcgStep(s0), AllOnes), den |-> TwoTo32]]

(* Inputs *)

\* most draws from one closure
MaxDraws == 3

\* 0, 1, GardenArc's default 7189, 0xffffffff, and the seeds whose first,
\* second and third rng01 draw leaves x = 0xffffffff (0xb8c2ce99,
\* 0x0de9823c, 0x3f742c87: the hashes of StoryIdA, StoryIdB, StoryIdC)
Seeds ==
    { Zero, One, [hi |-> 0, lo |-> 7189], AllOnes,
      [hi |-> 47298, lo |-> 52889], [hi |-> 3561, lo |-> 33340],
      [hi |-> 16244, lo |-> 11399] }

(* The calls *)

RngInit ==
    /\ GardenIdle
    /\ BuildIdle
    /\ HashIdle
    /\ DotsIdle
    /\ LateIdle
    /\ rngSeed \in Seeds
    /\ rngX = [g \in Gens |-> NoWord]
    /\ rngS = [g \in Gens |-> NoWord]
    /\ rngOut = [g \in Gens |-> <<>>]
    /\ mkOut = [g \in Gens |-> <<>>]

\* const rnd = rng01(seed)
NewRng01(g) ==
    /\ rngX[g] = NoWord
    /\ rngX' = [rngX EXCEPT ![g] = rng01(rngSeed)]
    /\ UNCHANGED <<rngSeed, rngS, rngOut, mkOut>>
    /\ UNCHANGED nonRngVars

\* (mutant) rnd(), with the two closures sharing one x
DrawRng01Shared(g) ==
    /\ rngX[g] # NoWord
    /\ \A k \in Gens : rngX[k] # NoWord
    /\ Len(rngOut[g]) < MaxDraws
    /\ rngX' = [k \in Gens |-> rng01Next(rngX[g]).x]
    /\ rngOut' = [rngOut EXCEPT ![g] = Append(@, rng01Next(rngX[g]).value)]
    /\ UNCHANGED <<rngSeed, rngS, mkOut>>
    /\ UNCHANGED nonRngVars

\* rnd()
DrawRng01(g) ==
    /\ rngX[g] # NoWord
    /\ Len(rngOut[g]) < MaxDraws
    /\ rngX' = [rngX EXCEPT ![g] = rng01Next(rngX[g]).x]
    /\ rngOut' = [rngOut EXCEPT ![g] = Append(@, rng01Next(rngX[g]).value)]
    /\ UNCHANGED <<rngSeed, rngS, mkOut>>
    /\ UNCHANGED nonRngVars

\* const rng = makeRng(seed)
NewMakeRng(g) ==
    /\ rngS[g] = NoWord
    /\ rngS' = [rngS EXCEPT ![g] = makeRng(rngSeed)]
    /\ UNCHANGED <<rngSeed, rngX, rngOut, mkOut>>
    /\ UNCHANGED nonRngVars

\* rng()
DrawMakeRng(g) ==
    /\ rngS[g] # NoWord
    /\ Len(mkOut[g]) < MaxDraws
    /\ rngS' = [rngS EXCEPT ![g] = makeRngNext(rngS[g]).s]
    /\ mkOut' = [mkOut EXCEPT ![g] = Append(@, makeRngNext(rngS[g]).value)]
    /\ UNCHANGED <<rngSeed, rngX, rngOut>>
    /\ UNCHANGED nonRngVars

RngNext ==
    \/ \E g \in Gens : NewRng01(g)
    \/ \E g \in Gens : DrawRng01(g)
    \/ \E g \in Gens : NewMakeRng(g)
    \/ \E g \in Gens : DrawMakeRng(g)

SpecRng == RngInit /\ [][RngNext]_vars

-----------------------------------------------------------------------------
(* Properties of the generators *)

\* q is a prefix of r, or r of q
Agree(q, r) == \A i \in 1 .. Min(Len(q), Len(r)) : q[i] = r[i]

\* C15: two closures made by rng01 from one seed return the same value at
\* every draw index, and so do two made by makeRng, however the draws of
\* the four closures are interleaved.
C15_Reproducible ==
    /\ Agree(rngOut[1], rngOut[2])
    /\ Agree(mkOut[1], mkOut[2])

\* both rng01 closures and both makeRng closures have been drawn from
\* MaxDraws times, the second rng01 closure made after the first was drawn
C15_Witness ==
    /\ \A g \in Gens : Len(rngOut[g]) = MaxDraws /\ Len(mkOut[g]) = MaxDraws
    /\ rngOut[1] = rngOut[2]
    /\ mkOut[1] = mkOut[2]
    /\ rngOut[1][1] # rngOut[1][2]

NumLess(a, b) == a.hi < b.hi \/ (a.hi = b.hi /\ a.lo < b.lo)

\* 0 <= v < 1
InUnit(v) == ~NumLess(v.num, Zero) /\ NumLess(v.num, v.den)

\* C16: every value a generator returns is >= 0 and < 1.
C16_InUnitInterval ==
    \A g \in Gens :
        /\ \A i \in 1 .. Len(rngOut[g]) : InUnit(rngOut[g][i])
        /\ \A i \in 1 .. Len(mkOut[g]) : InUnit(mkOut[g][i])

\* every value rng01 returns is >= 0 and < 1
C16_Rng01InUnit ==
    \A g \in Gens : \A i \in 1 .. Len(rngOut[g]) : InUnit(rngOut[g][i])

\* every value makeRng returns is >= 0 and < 1
C16_MakeRngInUnit ==
    \A g \in Gens : \A i \in 1 .. Len(mkOut[g]) : InUnit(mkOut[g][i])

\* the products the generators form are below 2^53
RngExact ==
    \A g \in Gens :
        /\ rngX[g] # NoWord => WideExact(LcgWide(rngX[g]))
        /\ rngS[g] # NoWord => WideExact(LcgWide(rngS[g]))

-----------------------------------------------------------------------------
(* Double arithmetic                                                        *)
(*                                                                         *)
(* A natural number of any size is the little-endian sequence of its limbs  *)
(* (digits in base 2^15), without leading zero limbs: <<>> is 0.  A         *)
(* non-negative double is the record [m, e] standing for m * 2^e, with m a  *)
(* natural of at most 53 bits that is odd (0 is [m |-> <<>>, e |-> 0]).     *)
(* Every operation rounds its exact result to the nearest such value, ties  *)
(* to the even mantissa, as IEEE 754 does.  The values met here are far     *)
(* from the overflow and subnormal ranges.                                  *)

Limb == 32768

RECURSIVE BigOf(_)
BigOf(n) == IF n = 0 THEN <<>> ELSE <<n % Limb>> \o BigOf(n \div Limb)

RECURSIVE BigTrim(_)
BigTrim(a) ==
    IF a = <<>> THEN <<>>
    ELSE IF a[Len(a)] = 0 THEN BigTrim(SubSeq(a, 1, Len(a) - 1))
    ELSE a

RECURSIVE BigAddC(_, _, _)
BigAddC(a, b, c) ==
    IF a = <<>> /\ b = <<>> THEN BigOf(c)
    ELSE LET x == (IF a = <<>> THEN 0 ELSE Head(a))
                    + (IF b = <<>> THEN 0 ELSE Head(b)) + c
         IN  <<x % Limb>> \o BigAddC(IF a = <<>> THEN <<>> ELSE Tail(a),
                                     IF b = <<>> THEN <<>> ELSE Tail(b),
                                     x \div Limb)

BigAdd(a, b) == BigAddC(a, b, 0)

\* a - b - c for a >= b + c, limb by limb
RECURSIVE BigSubB(_, _, _)
BigSubB(a, b, c) ==
    IF a = <<>> THEN <<>>
    ELSE LET x == Head(a) - (IF b = <<>> THEN 0 ELSE Head(b)) - c
         IN  <<x % Limb>> \o BigSubB(Tail(a),
                                     IF b = <<>> THEN <<>> ELSE Tail(b),
                                     IF x < 0 THEN 1 ELSE 0)

BigSub(a, b) == BigTrim(BigSubB(a, b, 0))

\* a * k + c for k below 2^15
RECURSIVE BigMulSmallC(_, _, _)
BigMulSmallC(a, k, c) ==
    IF a = <<>> THEN BigOf(c)
    ELSE LET x == Head(a) * k + c
         IN  <<x % Limb>> \o BigMulSmallC(Tail(a), k, x \div Limb)

BigMulSmall(a, k) == BigTrim(BigMulSmallC(a, k, 0))

\* a * 2^15
BigUp(a) == IF a = <<>> THEN <<>> ELSE <<0>> \o a

RECURSIVE BigMul(_, _)
BigMul(a, b) ==
    IF b = <<>> THEN <<>>
    ELSE BigAdd(BigMulSmall(a, Head(b)), BigUp(BigMul(a, Tail(b))))

\* -1, 0, 1 as a < b, a = b, a > b
RECURSIVE BigCmp(_, _)
BigCmp(a, b) ==
    IF Len(a) # Len(b) THEN (IF Len(a) < Len(b) THEN -1 ELSE 1)
    ELSE IF a = <<>> THEN 0
    ELSE IF a[Len(a)] # b[Len(b)] THEN (IF a[Len(a)] < b[Len(b)] THEN -1 ELSE 1)
    ELSE BigCmp(SubSeq(a, 1, Len(a) - 1), SubSeq(b, 1, Len(b) - 1))

\* quotient and remainder of a by k, for 0 < k <= 2^15
RECURSIVE BigDivSmall(_, _)
BigDivSmall(a, k) ==
    IF a = <<>> THEN [q |-> <<>>, r |-> 0]
    ELSE LET up == BigDivSmall(Tail(a), k)
             cur == up.r * Limb + Head(a)
         IN  [q |-> BigTrim(<<cur \div k>> \o up.q), r |-> cur % k]

RECURSIVE BigUpBy(_, _)
BigUpBy(a, n) == IF n = 0 THEN a ELSE BigUpBy(BigUp(a), n - 1)

\* a * 2^n
BigShl(a, n) == BigUpBy(BigMulSmall(a, Pow2(n % 15)), n \div 15)

\* floor(a / 2^n)
BigShr(a, n) ==
    IF n \div 15 >= Len(a) THEN <<>>
    ELSE BigDivSmall(SubSeq(a, (n \div 15) + 1, Len(a)), Pow2(n % 15)).q

RECURSIVE BitLen(_)
BitLen(n) == IF n = 0 THEN 0 ELSE 1 + BitLen(n \div 2)

BigBitLen(a) == IF a = <<>> THEN 0 ELSE 15 * (Len(a) - 1) + BitLen(a[Len(a)])

BigOdd(a) == a # <<>> /\ a[1] % 2 = 1

FlZero == [m |-> <<>>, e |-> 0]

\* the number of zero bits below the lowest one bit of 0 < n < 2^15
LowZeros(n) == CHOOSE k \in 0 .. 14 : n % Pow2(k) = 0 /\ (n \div Pow2(k)) % 2 = 1

\* m * 2^e with the mantissa made odd: whole zero limbs go first, then the
\* zero bits of the lowest limb
RECURSIVE FlCanon(_, _)
FlCanon(m, e) ==
    IF m = <<>> THEN FlZero
    ELSE IF m[1] = 0 THEN FlCanon(Tail(m), e + 15)
    ELSE [m |-> BigShr(m, LowZeros(m[1])), e |-> e + LowZeros(m[1])]

\* the double nearest to n * 2^e (to n * 2^e plus a fraction of 2^e when
\* sticky), ties to even
FlRound(n, e, sticky) ==
    LET len == BigBitLen(n)
    IN  IF len <= 53 THEN FlCanon(n, e)
        ELSE LET s == len - 53
                 q == BigShr(n, s)
                 r == BigSub(n, BigShl(q, s))
                 c == BigCmp(r, BigShl(<<1>>, s - 1))
                 up == c > 0 \/ (c = 0 /\ (sticky \/ BigOdd(q)))
             IN  FlCanon(IF up THEN BigAdd(q, <<1>>) ELSE q, e + s)

\* the integer n as a double (n below 2^31)
FlInt(n) == FlCanon(BigOf(n), 0)

\* the double k / u of two integers (0 <= k, 0 < u <= 2^15); also the double
\* a decimal literal k/u stands for
FlDiv(k, u) ==
    IF k = 0 THEN FlZero
    ELSE LET d == BigDivSmall(BigShl(BigOf(k), 75), u)
         IN  FlRound(d.q, -75, d.r # 0)

\* x + y
FlAdd(x, y) ==
    LET e == Min(x.e, y.e)
    IN  FlRound(BigAdd(BigShl(x.m, x.e - e), BigShl(y.m, y.e - e)), e, FALSE)

\* x - y for x >= y
FlSub(x, y) ==
    LET e == Min(x.e, y.e)
    IN  FlRound(BigSub(BigShl(x.m, x.e - e), BigShl(y.m, y.e - e)), e, FALSE)

\* x * y
FlMul(x, y) == FlRound(BigMul(x.m, y.m), x.e + y.e, FALSE)

\* x <= y
FlLeq(x, y) ==
    LET e == Min(x.e, y.e)
    IN  BigCmp(BigShl(x.m, x.e - e), BigShl(y.m, y.e - e)) <= 0

-----------------------------------------------------------------------------
(* StoryDotsOverlay: one dot per story, placed from the hash of its id      *)

\* Math.round(n / d) for n >= 0, d > 0
RoundDiv(n, d) == (2 * n + d) \div (2 * d)

\* Math.floor(rnd() * n) for the value x / 0xffffffff rnd() returned and
\* 0 < n < 2^15: with x * n = q * 2^32 + r it is q, or q + 1 when
\* q + r >= 2^32 - 1.  (The double product is within 2^-40 of the exact
\* one and the exact one, when not an integer, is at least 2^-32 away from
\* one; 0 and 1 are exact.)
FloorTimes(v, n) ==
    LET t0 == v.num.lo * n
        t1 == v.num.hi * n + (t0 \div Half)
        q == t1 \div Half
        rest == NumOf(t1 % Half, (t0 % Half) + q)
    IN  IF NumLess(rest, AllOnes) THEN q ELSE q + 1

\* const vh = Math.max(300, viewport.viewportH || 700)
DotVh(viewportH) == Max(300, IF viewportH = 0 THEN 700 ELSE viewportH)
\* const topPad = Math.max(40, Math.round(vh * 0.08))
TopPad(viewportH) == Max(40, RoundDiv(DotVh(viewportH) * 8, 100))
\* const usableH = Math.max(120, Math.round(vh * 0.55))
UsableH(viewportH) == Max(120, RoundDiv(DotVh(viewportH) * 55, 100))

\* (mutant) t taken from y, not from y - topPad
DotParallaxFromY(y, topPad, usableH, lo, hi) ==
    FlAdd(FlDiv(lo, 100),
          FlMul(FlDiv(y, Max(1, usableH)),
                FlSub(FlDiv(hi, 100), FlDiv(lo, 100))))

\* const t = (y - topPad) / Math.max(1, usableH);
\* const parallax = pMin + t * (pMax - pMin)       (lo, hi: pMin, pMax)
DotParallax(y, topPad, usableH, lo, hi) ==
    FlAdd(FlDiv(lo, 100),
          FlMul(FlDiv(y - topPad, Max(1, usableH)),
                FlSub(FlDiv(hi, 100), FlDiv(lo, 100))))

\* the body of stories.map((s) => ...)
MakeDot(id, segW, viewportH, lo, hi) ==
    LET topPad == TopPad(viewportH)
        usableH == UsableH(viewportH)
        h == hash32(id)
        d1 == rng01Next(rng01(h))
        d2 == rng01Next(d1.x)
        d3 == rng01Next(d2.x)
        x == FloorTimes(d1.value, segW)
        y == topPad + FloorTimes(d2.value, usableH)
        r == 3 + FloorTimes(d3.value, 6)
    IN  [id |-> id, x |-> x, y |-> y, r |-> r,
         parallax |-> DotParallax(y, topPad, usableH, lo, hi)]

\* (mutant) one generator, seeded from the first story, for the whole list
MakeDotsFromFirst(ids, segW, viewportH, lo, hi) ==
    [i \in 1 .. Len(ids) |->
        [MakeDot(ids[1], segW, viewportH, lo, hi) EXCEPT !.id = ids[i]]]

\* the dots useMemo
MakeDots(ids, segW, viewportH, lo, hi) ==
    [i \in 1 .. Len(ids) |-> MakeDot(ids[i], segW, viewportH, lo, hi)]

\* const offsetMod = ((viewport.offsetX % segmentWidth) + segmentWidth) % segmentWidth
offsetMod ==
    JsRem(JsRem(dotViewport.offsetX, dotSegmentWidth) + dotSegmentWidth,
          dotSegmentWidth)

\* const baseLeft = -segmentWidth: the left of the three-segment container
baseLeft == -dotSegmentWidth

\* the left of one copy of a dot inside the container,
\* d.x + tile * segmentWidth - d.r - offsetMod * d.parallax, kept as
\* whole - times * parallax
DotLeft(d, tile) ==
    [whole |-> d.x + tile * dotSegmentWidth - d.r,
     times |-> offsetMod,
     parallax |-> d.parallax]

(* Inputs *)

\* most stories in the overlay
MaxStories == 2

StoryIds == {StoryIdA, StoryIdB, StoryIdC}

StoryLists == UNION { [1 .. n -> StoryIds] : n \in 1 .. MaxStories }

\* the smallest segment and the home page's
DotSegmentWidths == {1, DefaultSegmentWidth}

\* <<pMin, pMax>> in hundredths: the defaults and a narrower band
ParallaxBands == {<<35, 95>>, <<3, 29>>}

\* offsets the garden emits (the negative one is what it emits after a
\* mount at initialOffsetX = -3000), and container heights
DotOffsets == {-1904, 0, 1024, 2048}
ViewportHeights == {250, 1080}

(* The overlay *)

DotsInit ==
    /\ GardenIdle
    /\ BuildIdle
    /\ HashIdle
    /\ RngIdle
    /\ LateIdle
    /\ stories \in StoryLists
    /\ dotSegmentWidth \in DotSegmentWidths
    /\ \E band \in ParallaxBands : pMin = band[1] /\ pMax = band[2]
    /\ dotViewport = [offsetX |-> 0, viewportH |-> 0]
    /\ dots = <<>>
    /\ shown = FALSE

\* the stories have arrived: the host renders the overlay, whose first
\* render builds the dots
StoriesLoaded ==
    /\ ~shown
    /\ shown' = TRUE
    /\ dots' = MakeDots(stories, dotSegmentWidth, dotViewport.viewportH, pMin, pMax)
    /\ UNCHANGED <<stories, dotSegmentWidth, dotViewport, pMin, pMax>>
    /\ UNCHANGED nonDotVars

\* the garden emits a viewport event: the host sets its state and renders;
\* the memo is built again when viewport.viewportH has changed
OnViewportChange(offsetX, viewportH) ==
    /\ dotViewport' = [offsetX |-> offsetX, viewportH |-> viewportH]
    /\ dotViewport' # dotViewport
    /\ dots' = IF shown /\ viewportH # dotViewport.viewportH
               THEN MakeDots(stories, dotSegmentWidth, viewportH, pMin, pMax)
               ELSE dots
    /\ UNCHANGED <<stories, dotSegmentWidth, pMin, pMax, shown>>
    /\ UNCHANGED nonDotVars

DotsNext ==
    \/ StoriesLoaded
    \/ \E offsetX \in DotOffsets, viewportH \in ViewportHeights :
          OnViewportChange(offsetX, viewportH)

SpecDots == DotsInit /\ [][DotsNext]_vars

\* The overlay with its pointer events and the host's other renders.
\* [stories, segmentWidth, viewport.viewportH, pMin, pMax]
DotsDeps == <<stories, dotSegmentWidth, dotViewport.viewportH, pMin, pMax>>

\* useMemo: the value kept when the dependencies are those of the last
\* render
useMemoDots(prev, deps) ==
    IF deps = prev THEN dots
    ELSE MakeDots(deps[1], deps[2], deps[3], deps[4], deps[5])

\* the keys `${tile}:${d.id}` of the copies a pointer can enter
HoverKeys == { <<tile, dots[i].id>> : tile \in {-1, 0}, i \in {1} \cap DOMAIN dots }

\* onMouseEnter={() => onEnter(key)}: setHoverId(key) and a render
MouseEnter(key) ==
    /\ shown
    /\ hoverId' = key
    /\ hoverId' # hoverId
    /\ dots' = useMemoDots(DotsDeps, DotsDeps)
    /\ UNCHANGED <<stories, dotSegmentWidth, dotViewport, pMin, pMax, shown,
                   activeStory, dotViewportW>>
    /\ UNCHANGED nonOverlayVars

\* onMouseLeave={onLeave}: setHoverId(null) and a render
MouseLeave ==
    /\ shown
    /\ hoverId # <<>>
    /\ hoverId' = <<>>
    /\ dots' = useMemoDots(DotsDeps, DotsDeps)
    /\ UNCHANGED <<stories, dotSegmentWidth, dotViewport, pMin, pMax, shown,
                   activeStory, dotViewportW>>
    /\ UNCHANGED nonOverlayVars

\* onClick={() => onDotClick(d.story)}: the host's setActive(s); the host
\* renders the overlay with a new onDotClick and the same stories
DotClick(i) ==
    /\ shown
    /\ i \in DOMAIN dots
    /\ activeStory' = dots[i].id
    /\ activeStory' # activeStory
    /\ dots' = useMemoDots(DotsDeps, DotsDeps)
    /\ UNCHANGED <<stories, dotSegmentWidth, dotViewport, pMin, pMax, shown,
                   hoverId, dotViewportW>>
    /\ UNCHANGED nonOverlayVars

\* the garden's container changes width: the viewport event differs in
\* viewportW alone, and the host renders the overlay
OnViewportWidth(w) ==
    /\ dotViewportW' = w
    /\ dotViewportW' # dotViewportW
    /\ dots' = IF shown THEN useMemoDots(DotsDeps, DotsDeps) ELSE dots
    /\ UNCHANGED <<stories, dotSegmentWidth, dotViewport, pMin, pMax, shown,
                   hoverId, activeStory>>
    /\ UNCHANGED nonOverlayVars

\* widths of the garden's container
DotViewportWidths == {1024, 1920}

\* the home page's overlay (segmentWidth 4096, the default band) over
\* lists of the first two stories
OverlayInit ==
    /\ DotsInit
    /\ dotSegmentWidth = DefaultSegmentWidth
    /\ pMin = 35
    /\ \A i \in DOMAIN stories : stories[i] \in {StoryIdA, StoryIdB}

OverlayNext ==
    \/ StoriesLoaded
    \/ \E offsetX \in DotOffsets, viewportH \in ViewportHeights :
          OnViewportChange(offsetX, viewportH)
    \/ \E key \in HoverKeys : MouseEnter(key)
    \/ MouseLeave
    \/ \E i \in {Len(dots)} : DotClick(i)
    \/ \E w \in DotViewportWidths : OnViewportWidth(w)

SpecOverlay == OverlayInit /\ [][OverlayNext]_vars

-----------------------------------------------------------------------------
(* Properties of the dots *)

\* x, y, r and parallax of a dot
DotAttributes(d) == <<d.x, d.y, d.r, d.parallax>>

\* C24: the attributes of every dot are those its story alone gets, as the
\* only story of a list, from segmentWidth, the viewport height and
\* (pMin, pMax): whatever offsetX and viewport width have been emitted,
\* whatever was hovered or clicked, wherever the story stands in the list
\* and whatever other stories are there.
C24_DotsDependOnIdOnly ==
    shown =>
        /\ Len(dots) = Len(stories)
        /\ \A i \in DOMAIN dots :
              /\ dots[i].id = stories[i]
              /\ DotAttributes(dots[i]) =
                    DotAttributes(MakeDots(<<stories[i]>>, dotSegmentWidth,
                                           dotViewport.viewportH, pMin, pMax)[1])

\* two different stories are shown, the second was clicked while a dot was
\* hovered, after events that changed offsetX, the height and the width
C24_Witness ==
    /\ shown
    /\ Len(dots) = 2
    /\ stories[1] # stories[2]
    /\ hoverId # <<>>
    /\ activeStory = stories[2]
    /\ dotViewportW = 1920
    /\ dotViewport.offsetX = 2048
    /\ dotViewport.viewportH = 1080
    /\ DotAttributes(dots[1]) # DotAttributes(dots[2])

\* C17: every dot has 0 <= x <= segmentWidth - 1, 3 <= r <= 9 and
\* topPad <= y <= topPad + usableH - 1 (x, y and r are integers by
\* construction: each is a Math.floor plus an integer).
C17_DotInRange ==
    \A i \in 1 .. Len(dots) :
        LET d == dots[i]
            topPad == TopPad(dotViewport.viewportH)
            usableH == UsableH(dotViewport.viewportH)
        IN  /\ 0 <= d.x /\ d.x <= dotSegmentWidth - 1
            /\ 3 <= d.r /\ d.r <= 9
            /\ topPad <= d.y /\ d.y <= topPad + usableH - 1

\* every dot has 0 <= x <= segmentWidth, 3 <= r <= 9 and
\* topPad <= y <= topPad + usableH: what holds of the code
DotInClosedRange ==
    \A i \in 1 .. Len(dots) :
        LET d == dots[i]
            topPad == TopPad(dotViewport.viewportH)
            usableH == UsableH(dotViewport.viewportH)
        IN  /\ 0 <= d.x /\ d.x <= dotSegmentWidth
            /\ 3 <= d.r /\ d.r <= 9
            /\ topPad <= d.y /\ d.y <= topPad + usableH

\* C18: with pMin <= pMax every dot has pMin <= parallax <= pMax, its
\* parallax is pMin + ((y - topPad) / usableH) * (pMax - pMin), and of two
\* dots the one with the larger y does not have the smaller parallax.
C18_ParallaxInBand ==
    pMin <= pMax =>
        /\ \A i \in 1 .. Len(dots) :
              LET d == dots[i]
                  topPad == TopPad(dotViewport.viewportH)
                  usableH == UsableH(dotViewport.viewportH)
              IN  /\ FlLeq(FlDiv(pMin, 100), d.parallax)
                  /\ FlLeq(d.parallax, FlDiv(pMax, 100))
                  /\ d.parallax =
                        FlAdd(FlDiv(pMin, 100),
                              FlMul(FlDiv(d.y - topPad, usableH),
                                    FlSub(FlDiv(pMax, 100), FlDiv(pMin, 100))))
        /\ \A i, j \in 1 .. Len(dots) :
              dots[i].y < dots[j].y => FlLeq(dots[i].parallax, dots[j].parallax)

\* the same for the dots whose y is inside the band
\* [topPad, topPad + usableH - 1]
ParallaxInBandInside ==
    \A i \in 1 .. Len(dots) :
        dots[i].y <= TopPad(dotViewport.viewportH)
                        + UsableH(dotViewport.viewportH) - 1
            => /\ FlLeq(FlDiv(pMin, 100), dots[i].parallax)
               /\ FlLeq(dots[i].parallax, FlDiv(pMax, 100))

\* whole - times * parallax as a value: two such are equal
SameValue(a, b) ==
    LET dw == a.whole - b.whole
        dt == a.times - b.times
        par == a.parallax
    IN  IF dt = 0 \/ par = FlZero THEN dw = 0
        ELSE /\ (dw > 0) = (dt > 0)
             /\ dw # 0
             /\ BigCmp(BigShl(BigOf(Abs(dw)), Max(0, -par.e)),
                       BigShl(BigMulSmall(par.m, Abs(dt)), Max(0, par.e))) = 0

\* C19: in the overlay's screen coordinates (the container's left offset
\* applied), the copy of a dot for tile -1, 0, +1 is centred at
\* dot.x + tile * segmentWidth - offsetX * dot.parallax.
C19_ScreenPosition ==
    \A i \in 1 .. Len(dots) : \A tile \in {-1, 0, 1} :
        LET d == dots[i]
            left == DotLeft(d, tile)
        IN  SameValue([left EXCEPT !.whole = baseLeft + @ + d.r],
                      [whole |-> d.x + tile * dotSegmentWidth,
                       times |-> dotViewport.offsetX,
                       parallax |-> d.parallax])

\* the same position taken inside the container (its left offset left out)
PositionInContainer ==
    \A i \in 1 .. Len(dots) : \A tile \in {-1, 0, 1} :
        LET d == dots[i]
            left == DotLeft(d, tile)
        IN  SameValue([left EXCEPT !.whole = @ + d.r],
                      [whole |-> d.x + tile * dotSegmentWidth,
                       times |-> dotViewport.offsetX,
                       parallax |-> d.parallax])

\* what holds of the code: on screen the copies are centred at
\* dot.x + (tile - 1) * segmentWidth - offsetMod * dot.parallax
PositionOnScreen ==
    \A i \in 1 .. Len(dots) : \A tile \in {-1, 0, 1} :
        LET d == dots[i]
            left == DotLeft(d, tile)
        IN  SameValue([left EXCEPT !.whole = baseLeft + @ + d.r],
                      [whole |-> d.x + (tile - 1) * dotSegmentWidth,
                       times |-> offsetMod,
                       parallax |-> d.parallax])

-----------------------------------------------------------------------------
(* Mounting and unmounting the garden: the wheel listener and the viewport  *)
(* ResizeObserver its effects register                                      *)
(*                                                                         *)
(* React runs, at the commit of a render, the cleanups of the effects whose *)
(* dependencies changed and then their setups; at unmount it runs every     *)
(* cleanup.  Closures and observers are numbered as they are created.       *)

\* most instances mounted one after the other
MaxMounts == 2
\* re-renders are taken while fewer closures and observers than this exist
MaxFresh == 6

\* the maintained component, and the copy of it inside GardenArc.tsx
Variants == {"InfiniteParallaxGarden.tsx", "GardenArc.tsx"}

\* props and state: wheelToHorizontal; onViewportChange (0: not passed,
\* else the identity of the callback); the segmentWidth value; the
\* scrollLeft state; the number of layers
PropsSets ==
    [wheelToHorizontal : BOOLEAN, onViewportChange : 0 .. 2,
     segmentWidth : {1, 2}, scrollLeft : {0, 1}, layers : {1, 2}]

\* the viewport effect runs once in InfiniteParallaxGarden.tsx; in
\* GardenArc.tsx it sits inside renderLayerSegment, called three times a layer
Slots(v, props) == IF v = "GardenArc.tsx" THEN 3 * props.layers ELSE 1

\* the element the viewport effect observes: scrollRef.current, the scroll
\* container, in InfiniteParallaxGarden.tsx; hostRef.current in GardenArc.tsx,
\* a ref no element is given
ObservedRefAttached(v) == v = "InfiniteParallaxGarden.tsx"

\* [wheelToHorizontal, handleScroll]: handleScroll is memoized on
\* segmentWidth in InfiniteParallaxGarden.tsx and made anew by every render
\* in GardenArc.tsx
WheelDepsChanged(v, old, new) ==
    \/ v = "GardenArc.tsx"
    \/ <<old.wheelToHorizontal, old.segmentWidth>>
          # <<new.wheelToHorizontal, new.segmentWidth>>

\* [onViewportChange, notifyViewport], notifyViewport memoized on
\* onViewportChange, scrollLeft, localX and segmentWidth; [notify] in
\* GardenArc.tsx, notify memoized on onViewportChange and segmentWidth
ResizeDepsChanged(v, old, new) ==
    IF v = "GardenArc.tsx"
    THEN <<old.onViewportChange, old.segmentWidth>>
            # <<new.onViewportChange, new.segmentWidth>>
    ELSE <<old.onViewportChange, old.scrollLeft, old.segmentWidth>>
            # <<new.onViewportChange, new.scrollLeft, new.segmentWidth>>

\* (mutant) the cleanup removing the function of the latest render
WheelCleanupFresh(listeners, inst, held, fresh) ==
    listeners \ {[inst |-> inst, fn |-> fresh]}

\* return () => window.removeEventListener("wheel", onWheel)
WheelCleanup(listeners, inst, held, fresh) ==
    listeners \ {[inst |-> inst, fn |-> held]}

\* return () => ro.disconnect(), for the observers the slots hold
ResizeCleanup(obs, inst, held) ==
    obs \ {[inst |-> inst, ro |-> held[i]] : i \in DOMAIN held}

\* the wheel effect: nothing without wheelToHorizontal, else
\* window.addEventListener("wheel", onWheel) with the closure fn
WheelSetup(listeners, inst, props, fn) ==
    IF props.wheelToHorizontal
    THEN listeners \cup {[inst |-> inst, fn |-> fn]}
    ELSE listeners

\* whether slot i of the viewport effect creates an observer:
\* InfiniteParallaxGarden.tsx returns first when onViewportChange is missing
CreatesObserver(v, props) == v = "GardenArc.tsx" \/ props.onViewportChange # 0

\* the observers the viewport effect's slots hold after their setup, the
\* first being number first
ResizeHeldAfter(v, props, first) ==
    [i \in 1 .. Slots(v, props) |->
        IF CreatesObserver(v, props) THEN first + i - 1 ELSE 0]

\* ro.observe(el), done when the ref holds an element
ResizeSetup(obs, inst, v, props, first) ==
    IF CreatesObserver(v, props) /\ ObservedRefAttached(v)
    THEN obs \cup {[inst |-> inst, ro |-> first + i - 1] :
                      i \in 1 .. Slots(v, props)}
    ELSE obs

\* the garden is mounted with props p: first render, effects to be set up
Mount(v, p) ==
    /\ mPc = "unmounted"
    /\ mInst < MaxMounts
    /\ mVariant' = v
    /\ mInst' = mInst + 1
    /\ mProps' = p
    /\ mTodo' = Effects
    /\ mPc' = "setup"
    /\ wheelHeld' = 0
    /\ resizeHeld' = [i \in 1 .. Slots(v, p) |-> 0]
    /\ UNCHANGED <<windowListeners, observing, mFresh>>
    /\ UNCHANGED nonMountVars

\* a render with changed props or state (the number of layers stays: the
\* hooks inside renderLayerSegment must be as many in every render)
Rerender(p) ==
    /\ mPc = "idle"
    /\ mFresh < MaxFresh
    /\ p # mProps
    /\ p.layers = mProps.layers
    /\ mProps' = p
    /\ mTodo' = {e \in Effects :
                   \/ e = "wheel" /\ WheelDepsChanged(mVariant, mProps, p)
                   \/ e = "resize" /\ ResizeDepsChanged(mVariant, mProps, p)}
    /\ mPc' = IF mTodo' = {} THEN "idle" ELSE "cleanup"
    /\ UNCHANGED <<mVariant, mInst, windowListeners, observing, wheelHeld,
                   resizeHeld, mFresh>>
    /\ UNCHANGED nonMountVars

\* the commit runs the cleanups of the effects whose dependencies changed
RunCleanups ==
    /\ mPc = "cleanup"
    /\ windowListeners' =
          IF "wheel" \in mTodo /\ wheelHeld # 0
          THEN WheelCleanup(windowListeners, mInst, wheelHeld, mFresh)
          ELSE windowListeners
    /\ wheelHeld' = IF "wheel" \in mTodo THEN 0 ELSE wheelHeld
    /\ observing' =
          IF "resize" \in mTodo
          THEN ResizeCleanup(observing, mInst, resizeHeld)
          ELSE observing
    /\ resizeHeld' = IF "resize" \in mTodo
                     THEN [i \in DOMAIN resizeHeld |-> 0]
                     ELSE resizeHeld
    /\ mPc' = "setup"
    /\ UNCHANGED <<mVariant, mInst, mProps, mTodo, mFresh>>
    /\ UNCHANGED nonMountVars

\* ... and then their setups
RunSetups ==
    /\ mPc = "setup"
    /\ LET wheelNew == IF "wheel" \in mTodo /\ mProps.wheelToHorizontal
                       THEN 1 ELSE 0
           roFirst == mFresh + wheelNew + 1
           roNew == IF "resize" \in mTodo /\ CreatesObserver(mVariant, mProps)
                    THEN Slots(mVariant, mProps) ELSE 0
       IN  /\ windowListeners' =
                 IF "wheel" \in mTodo
                 THEN WheelSetup(windowListeners, mInst, mProps, mFresh + 1)
                 ELSE windowListeners
           /\ wheelHeld' = IF wheelNew = 1 THEN mFresh + 1 ELSE wheelHeld
           /\ observing' =
                 IF "resize" \in mTodo
                 THEN ResizeSetup(observing, mInst, mVariant, mProps, roFirst)
                 ELSE observing
           /\ resizeHeld' =
                 IF "resize" \in mTodo
                 THEN ResizeHeldAfter(mVariant, mProps, roFirst)
                 ELSE resizeHeld
           /\ mFresh' = mFresh + wheelNew + roNew
    /\ mTodo' = {}
    /\ mPc' = "idle"
    /\ UNCHANGED <<mVariant, mInst, mProps>>
    /\ UNCHANGED nonMountVars

\* the garden is unmounted: every effect's cleanup runs
Unmount ==
    /\ mPc = "idle"
    /\ windowListeners' =
          IF wheelHeld # 0
          THEN WheelCleanup(windowListeners, mInst, wheelHeld, mFresh)
          ELSE windowListeners
    /\ observing' = ResizeCleanup(observing, mInst, resizeHeld)
    /\ wheelHeld' = 0
    /\ resizeHeld' = [i \in DOMAIN resizeHeld |-> 0]
    /\ mPc' = "unmounted"
    /\ UNCHANGED <<mVariant, mInst, mProps, mTodo, mFresh>>
    /\ UNCHANGED nonMountVars

MountInit ==
    /\ GardenIdle
    /\ BuildIdle
    /\ HashIdle
    /\ RngIdle
    /\ DotsIdle
    /\ MountIdle
    /\ LoadIdle
    /\ UiIdle
    /\ ArcIdle
    /\ DbIdle

MountNext ==
    \/ \E v \in Variants, p \in PropsSets : Mount(v, p)
    \/ \E p \in PropsSets : Rerender(p)
    \/ RunCleanups
    \/ RunSetups
    \/ Unmount

SpecMount == MountInit /\ [][MountNext]_vars

(* Properties of mounting *)

\* what instance i has attached
ListenersOf(i) == {l \in windowListeners : l.inst = i}
ObserversOf(i) == {o \in observing : o.inst = i}

\* C22: at every moment of every sequence of mounts, re-renders that change
\* effect dependencies and unmounts, the mounted instance has at most one
\* wheel listener and at most one viewport ResizeObserver attached, and an
\* instance that was unmounted has none.
C22_MountSymmetry ==
    \A i \in 1 .. MaxMounts :
        IF i = mInst /\ mPc # "unmounted"
        THEN /\ Cardinality(ListenersOf(i)) <= 1
             /\ Cardinality(ObserversOf(i)) <= 1
        ELSE /\ ListenersOf(i) = {}
             /\ ObserversOf(i) = {}

\* the second instance, re-rendered with changed dependencies, has its one
\* listener and its one observer, and the first has left nothing
C22_Witness ==
    /\ mInst = 2
    /\ mPc = "idle"
    /\ mFresh >= 5
    /\ Cardinality(ListenersOf(2)) = 1
    /\ Cardinality(ObserversOf(2)) = 1
    /\ ListenersOf(1) = {}
    /\ ObserversOf(1) = {}

-----------------------------------------------------------------------------
(* Asynchronous loads: the home page's story fetch and the p5 host pages'   *)
(* dynamic import of p5                                                     *)

\* most runs of a p5 host's effect
MaxRuns == 3

\* (mutant) the guard that lets a settled fetch update state always
FetchMayUpdateAlways(cancelled) == TRUE

\* if (!cancelled) ...
FetchMayUpdate(cancelled) == ~cancelled

\* n state setters are called (hpStories and hpLoading are the values last
\* handed to them): counted when the page is gone
LateCallsAfter(n) == IF hpPc = "gone" THEN hpLateCalls + n ELSE hpLateCalls

\* the home page mounts; its effect sets loading and starts the fetch
HomeMount ==
    /\ hpPc = "unmounted"
    /\ hpPc' = "mounted"
    /\ fetchCancelled' = FALSE
    /\ hpLoading' = TRUE
    /\ fetchPc' = "fetch"
    /\ UNCHANGED <<hpStories, hpLateCalls>>
    /\ UNCHANGED <<p5Page, p5Pc, p5Runs, p5Ref, p5Live, hostRefCurrent>>
    /\ UNCHANGED nonLoadVars

\* the catch and finally blocks: setStories([]) and setLoading(false), each
\* unless cancelled
FetchFails ==
    /\ hpStories' = IF FetchMayUpdate(fetchCancelled)
                    THEN "empty" ELSE hpStories
    /\ hpLoading' = IF FetchMayUpdate(fetchCancelled)
                    THEN FALSE ELSE hpLoading
    /\ hpLateCalls' = LateCallsAfter(IF FetchMayUpdate(fetchCancelled)
                                     THEN 2 ELSE 0)
    /\ fetchPc' = "done"

\* await fetch(...) settles: a response that is ok goes on to res.json(),
\* any other outcome throws
FetchSettles(outcome) ==
    /\ fetchPc = "fetch"
    /\ IF outcome = "ok"
       THEN /\ fetchPc' = "json"
            /\ UNCHANGED <<hpStories, hpLoading, hpLateCalls>>
       ELSE FetchFails
    /\ UNCHANGED <<hpPc, fetchCancelled>>
    /\ UNCHANGED <<p5Page, p5Pc, p5Runs, p5Ref, p5Live, hostRefCurrent>>
    /\ UNCHANGED nonLoadVars

\* await res.json() settles: setStories(json.stories || []) and
\* setLoading(false), each unless cancelled; a body that does not parse throws
JsonSettles(outcome) ==
    /\ fetchPc = "json"
    /\ IF outcome = "parseError"
       THEN FetchFails
       ELSE /\ hpStories' =
                  IF FetchMayUpdate(fetchCancelled)
                  THEN (IF outcome = "stories" THEN "loaded" ELSE "empty")
                  ELSE hpStories
            /\ hpLoading' = IF FetchMayUpdate(fetchCancelled)
                            THEN FALSE ELSE hpLoading
            /\ hpLateCalls' = LateCallsAfter(IF FetchMayUpdate(fetchCancelled)
                                             THEN 2 ELSE 0)
            /\ fetchPc' = "done"
    /\ UNCHANGED <<hpPc, fetchCancelled>>
    /\ UNCHANGED <<p5Page, p5Pc, p5Runs, p5Ref, p5Live, hostRefCurrent>>
    /\ UNCHANGED nonLoadVars

\* the home page unmounts: return () => { cancelled = true; }
HomeUnmount ==
    /\ hpPc = "mounted"
    /\ hpPc' = "gone"
    /\ fetchCancelled' = TRUE
    /\ UNCHANGED <<fetchPc, hpStories, hpLoading, hpLateCalls>>
    /\ UNCHANGED <<p5Page, p5Pc, p5Runs, p5Ref, p5Live, hostRefCurrent>>
    /\ UNCHANGED nonLoadVars

\* the p5 host pages: Page has no dependencies, TilePage depends on num
HostPages == {"Page", "TilePage"}

\* a fresh run of the effect: let cancelled = false; import("p5") started
NewRun == [cancelled |-> FALSE, import |-> "pending"]

\* the cleanup of the latest run: cancelled = true
CancelLast(runs) ==
    [k \in DOMAIN runs |->
        IF k = Len(runs) THEN [runs[k] EXCEPT !.cancelled = TRUE] ELSE runs[k]]

\* a p5 host page mounts and its effect runs
HostMount(page) ==
    /\ p5Pc = "unmounted"
    /\ p5Page' = page
    /\ p5Pc' = "mounted"
    /\ hostRefCurrent' = TRUE
    /\ p5Runs' = <<NewRun>>
    /\ UNCHANGED <<p5Ref, p5Live>>
    /\ UNCHANGED <<hpPc, fetchPc, fetchCancelled, hpStories, hpLoading,
                   hpLateCalls>>
    /\ UNCHANGED nonLoadVars

\* (mutant) the instance made whether or not the run was cancelled
MayCreateAlways(run, host) == host

\* if (!cancelled && hostRef.current)
MayCreate(run, host) == ~run.cancelled /\ host

\* the import of run k resolves: p5InstanceRef.current = new P5(...)
ImportResolves(k) ==
    /\ k \in DOMAIN p5Runs
    /\ p5Runs[k].import = "pending"
    /\ p5Runs' = [p5Runs EXCEPT ![k].import = "resolved"]
    /\ IF MayCreate(p5Runs[k], hostRefCurrent)
       THEN p5Ref' = k /\ p5Live' = p5Live \cup {k}
       ELSE UNCHANGED <<p5Ref, p5Live>>
    /\ UNCHANGED <<p5Page, p5Pc, hostRefCurrent>>
    /\ UNCHANGED <<hpPc, fetchPc, fetchCancelled, hpStories, hpLoading,
                   hpLateCalls>>
    /\ UNCHANGED nonLoadVars

\* TilePage's num changes: the cleanup of the last run (cancelled = true,
\* p5InstanceRef.current?.remove(), p5InstanceRef.current = null), then a
\* fresh run
NumChanges ==
    /\ p5Pc = "mounted"
    /\ p5Page = "TilePage"
    /\ Len(p5Runs) < MaxRuns
    /\ p5Runs' = Append(CancelLast(p5Runs), NewRun)
    /\ p5Live' = p5Live \ {p5Ref}
    /\ p5Ref' = 0
    /\ UNCHANGED <<p5Page, p5Pc, hostRefCurrent>>
    /\ UNCHANGED <<hpPc, fetchPc, fetchCancelled, hpStories, hpLoading,
                   hpLateCalls>>
    /\ UNCHANGED nonLoadVars

\* the host page unmounts: the cleanup of the last run; React clears the ref
HostUnmount ==
    /\ p5Pc = "mounted"
    /\ p5Pc' = "gone"
    /\ p5Runs' = CancelLast(p5Runs)
    /\ p5Live' = p5Live \ {p5Ref}
    /\ p5Ref' = 0
    /\ hostRefCurrent' = FALSE
    /\ UNCHANGED p5Page
    /\ UNCHANGED <<hpPc, fetchPc, fetchCancelled, hpStories, hpLoading,
                   hpLateCalls>>
    /\ UNCHANGED nonLoadVars

LoadInit ==
    /\ GardenIdle
    /\ BuildIdle
    /\ HashIdle
    /\ RngIdle
    /\ DotsIdle
    /\ MountIdle
    /\ LoadIdle
    /\ UiIdle
    /\ ArcIdle
    /\ DbIdle

LoadNext ==
    \/ HomeMount
    \/ \E o \in {"ok", "httpError", "networkError"} : FetchSettles(o)
    \/ \E o \in {"stories", "noStories", "parseError"} : JsonSettles(o)
    \/ HomeUnmount
    \/ \E page \in HostPages : HostMount(page)
    \/ \E k \in 1 .. MaxRuns : ImportResolves(k)
    \/ NumChanges
    \/ HostUnmount

SpecLoad == LoadInit /\ [][LoadNext]_vars

(* Properties of the loads *)

\* C23: a load that completes after its component was torn down has no
\* effect.  Once the home page is unmounted with its fetch in flight, no
\* outcome of the fetch calls setStories or setLoading; a p5 instance exists
\* only for the latest run of a mounted host's effect, so a run cancelled
\* before its import resolved made none, an unmounted host has none, and a
\* mounted host has at most one.
C23_LateLoadsIgnored ==
    /\ hpPc = "gone" => hpLateCalls = 0
    /\ Cardinality(p5Live) <= 1
    /\ p5Pc # "mounted" => p5Live = {}
    /\ p5Live \subseteq {Len(p5Runs)}
    /\ p5Ref # 0 => p5Live = {p5Ref}

\* the home page was unmounted during the fetch, which then completed and
\* left loading as it was; a TilePage's first import resolved after num
\* changed and made nothing, its second made the one instance
C23_Witness ==
    /\ hpPc = "gone"
    /\ fetchPc = "done"
    /\ hpLoading
    /\ hpStories = "initial"
    /\ p5Pc = "mounted"
    /\ Len(p5Runs) = 2
    /\ p5Runs[1].import = "resolved"
    /\ p5Live = {2}

-----------------------------------------------------------------------------
(* GardenArc: plants placed along an arc from a seeded generator            *)

\* most plants
MaxCount == 3

\* most computations of placements in one mount
MaxComputes == 3

\* the double a value (s & 0xffffffff) / 0x100000000 is, as sign and
\* magnitude: & gives a signed 32-bit integer
FlOfUnit(v) ==
    IF v.num.hi < 0
    THEN [neg |-> TRUE,
          mag |-> FlCanon(BigSub(BigShl(BigOf(-v.num.hi), 16),
                                 BigOf(v.num.lo)), -32)]
    ELSE [neg |-> FALSE,
          mag |-> FlCanon(BigAdd(BigShl(BigOf(v.num.hi), 16),
                                 BigOf(v.num.lo)), -32)]

\* x < y
FlLess(x, y) == ~FlLeq(y, x)

\* lerp(0.9, 1.12, t)
JitterOf(t) ==
    LET step == FlMul(FlSub(FlDiv(112, 100), FlDiv(9, 10)), t.mag)
    IN  IF t.neg THEN FlSub(FlDiv(9, 10), step) ELSE FlAdd(FlDiv(9, 10), step)

\* (b - a) * t of lerp(-7, 7, t), as sign and magnitude
LeanOf(t) == [neg |-> t.neg, mag |-> FlMul(FlInt(14), t.mag)]

\* the plant type a draw r chooses
KindOf(r) ==
    IF r.neg \/ FlLess(r.mag, FlDiv(38, 100)) THEN "grass"
    ELSE IF FlLess(r.mag, FlDiv(60, 100)) THEN "wildflower"
    ELSE IF FlLess(r.mag, FlDiv(82, 100)) THEN "milkweed"
    ELSE "thistle"

\* the results of n successive calls of the closure, from its state s0
RECURSIVE Draws(_, _)
Draws(s0, n) ==
    IF n = 0 THEN <<>>
    ELSE LET d == Draws(s0, n - 1)
         IN  Append(d, makeRngNext(IF n = 1 THEN s0 ELSE d[n - 1].s))

\* one turn of the loop: the plant pushed.  x, y, the base scale and the
\* outward angle are functions of i and count alone (at); the turn's three
\* draws d1, d2, d3 give the jitter, the lean and the kind.
PlaceOne(i, count, d1, d2, d3) ==
    [at |-> <<i, count>>,
     jitter |-> JitterOf(FlOfUnit(d1.value)),
     lean |-> LeanOf(FlOfUnit(d2.value)),
     kind |-> KindOf(FlOfUnit(d3.value))]

\* the placements useMemo's callback, run with the closure in state s0:
\* arr, and the closure's state after the loop
Placements(s0, count) ==
    LET d == Draws(s0, 3 * count)
    IN  [s |-> IF count = 0 THEN s0 ELSE d[3 * count].s,
         arr |-> [i \in 1 .. count |->
                    PlaceOne(i - 1, count, d[3 * i - 2], d[3 * i - 1], d[3 * i])]]

\* the closure the rng useMemo gives the render: kept while seed is the
\* seed of the last render
useMemoRng(seed) == IF seed = arcSeed THEN arcRng ELSE makeRng(seed)

(* Inputs *)

\* seed: 0, 1, and the default 7189
ArcSeeds == { Zero, One, [hi |-> 0, lo |-> 7189] }

\* count
ArcCounts == 0 .. MaxCount

\* width
ArcWidths == {760, 900}

(* The component *)

\* the first render
ArcMount(seed, count, width) ==
    /\ arcPc = "unmounted"
    /\ arcPc' = "mounted"
    /\ arcSeed' = seed
    /\ arcCount' = count
    /\ arcWidth' = width
    /\ arcRng' = Placements(makeRng(seed), count).s
    /\ arcPlacements' = Placements(makeRng(seed), count).arr
    /\ arcComputes' = 1
    /\ UNCHANGED nonArcVars

\* a render with seed or count changed: [count, seed] differ, the callback
\* runs with the closure the rng useMemo gives
ArcRender(seed, count) ==
    /\ arcPc = "mounted"
    /\ <<seed, count>> # <<arcSeed, arcCount>>
    /\ arcComputes < MaxComputes
    /\ arcSeed' = seed
    /\ arcCount' = count
    /\ arcRng' = Placements(useMemoRng(seed), count).s
    /\ arcPlacements' = Placements(useMemoRng(seed), count).arr
    /\ arcComputes' = arcComputes + 1
    /\ UNCHANGED <<arcPc, arcWidth>>
    /\ UNCHANGED nonArcVars

\* a render with width changed: both memoized values are kept
ArcResize(width) ==
    /\ arcPc = "mounted"
    /\ width # arcWidth
    /\ arcWidth' = width
    /\ UNCHANGED <<arcPc, arcSeed, arcCount, arcRng, arcPlacements,
                   arcComputes>>
    /\ UNCHANGED nonArcVars

\* the component is removed; its memoized values go with it
ArcUnmount ==
    /\ arcPc = "mounted"
    /\ arcPc' = "unmounted"
    /\ arcSeed' = NoWord
    /\ arcCount' = 0
    /\ arcWidth' = 0
    /\ arcRng' = NoWord
    /\ arcPlacements' = <<>>
    /\ arcComputes' = 0
    /\ UNCHANGED nonArcVars

ArcInit ==
    /\ GardenIdle
    /\ BuildIdle
    /\ HashIdle
    /\ RngIdle
    /\ DotsIdle
    /\ MountIdle
    /\ LoadIdle
    /\ UiIdle
    /\ ArcIdle
    /\ DbIdle

ArcNext ==
    \/ \E seed \in ArcSeeds, count \in ArcCounts, width \in ArcWidths :
          ArcMount(seed, count, width)
    \/ \E seed \in ArcSeeds, count \in ArcCounts : ArcRender(seed, count)
    \/ \E width \in ArcWidths : ArcResize(width)
    \/ ArcUnmount

SpecArc == ArcInit /\ [][ArcNext]_vars

(* Properties of GardenArc *)

\* what a freshly mounted GardenArc computes
FreshPlacements(seed, count) == Placements(makeRng(seed), count).arr

\* C26: the placements a mounted GardenArc holds are those a freshly
\* mounted GardenArc computes for its seed and count, whatever renders came
\* before.
C26_PlacementsPure ==
    arcPc = "mounted" => arcPlacements = FreshPlacements(arcSeed, arcCount)

\* the placements are the fresh ones while the closure has served one
\* computation
FreshAtFirstCompute ==
    (arcPc = "mounted" /\ arcComputes = 1) =>
        arcPlacements = FreshPlacements(arcSeed, arcCount)

\* the first plant's scale jitter differs from the fresh one after count
\* went from 1 to 2 under the default seed
StaleJitter ==
    /\ arcPc = "mounted"
    /\ arcSeed = [hi |-> 0, lo |-> 7189]
    /\ arcCount = 2
    /\ arcComputes = 2
    /\ arcPlacements[1].jitter # FreshPlacements(arcSeed, arcCount)[1].jitter

-----------------------------------------------------------------------------
(* dbConnect: one cached connection promise for all callers                 *)

\* (mutant) connect at every call that finds no connection
NeedsConnectAlways(promise) == TRUE

\* if (!cached.promise)
NeedsConnect(promise) == promise = 0

\* cached.promise after the test: a new attempt's promise or the one held
PromiseAfter == IF NeedsConnect(cachedPromise) THEN Len(attempts) + 1
                ELSE cachedPromise

\* dbConnect() up to its first suspension: with a connection cached it
\* returns it; otherwise it creates the promise if none is held and awaits
\* cached.promise
Call(c) ==
    /\ dbPc[c] = "idle"
    /\ IF cachedConn # 0
       THEN /\ dbPc' = [dbPc EXCEPT ![c] = "resolved"]
            /\ dbResult' = [dbResult EXCEPT ![c] = cachedConn]
            /\ UNCHANGED <<cachedConn, cachedPromise, attempts, dbAwaits>>
       ELSE /\ attempts' = IF NeedsConnect(cachedPromise)
                           THEN Append(attempts, "pending") ELSE attempts
            /\ cachedPromise' = PromiseAfter
            /\ dbAwaits' = [dbAwaits EXCEPT ![c] = PromiseAfter]
            /\ dbPc' = [dbPc EXCEPT ![c] = "awaiting"]
            /\ UNCHANGED <<cachedConn, dbResult>>
    /\ UNCHANGED nonDbVars

\* the promise of attempt k settles: fulfilled with the connection of that
\* attempt, or rejected
Settle(k, outcome) ==
    /\ k \in DOMAIN attempts
    /\ attempts[k] = "pending"
    /\ attempts' = [attempts EXCEPT ![k] = outcome]
    /\ UNCHANGED <<cachedConn, cachedPromise, dbPc, dbAwaits, dbResult>>
    /\ UNCHANGED nonDbVars

\* a caller resumes after its await: cached.conn = <the value>; return
\* cached.conn; or the rejection propagates to the caller
Resume(c) ==
    /\ dbPc[c] = "awaiting"
    /\ attempts[dbAwaits[c]] # "pending"
    /\ IF attempts[dbAwaits[c]] = "fulfilled"
       THEN /\ cachedConn' = dbAwaits[c]
            /\ dbResult' = [dbResult EXCEPT ![c] = dbAwaits[c]]
            /\ dbPc' = [dbPc EXCEPT ![c] = "resolved"]
       ELSE /\ dbPc' = [dbPc EXCEPT ![c] = "rejected"]
            /\ UNCHANGED <<cachedConn, dbResult>>
    /\ UNCHANGED <<cachedPromise, attempts, dbAwaits>>
    /\ UNCHANGED nonDbVars

\* a caller whose call has ended is ready to call again
Again(c) ==
    /\ dbPc[c] \in {"resolved", "rejected"}
    /\ dbPc' = [dbPc EXCEPT ![c] = "idle"]
    /\ dbAwaits' = [dbAwaits EXCEPT ![c] = 0]
    /\ UNCHANGED <<cachedConn, cachedPromise, attempts, dbResult>>
    /\ UNCHANGED nonDbVars

DbInit ==
    /\ GardenIdle
    /\ BuildIdle
    /\ HashIdle
    /\ RngIdle
    /\ DotsIdle
    /\ MountIdle
    /\ LoadIdle
    /\ UiIdle
    /\ ArcIdle
    /\ DbIdle

DbNext ==
    \/ \E c \in Callers : Call(c)
    \/ \E k \in 1 .. MaxCallers, outcome \in {"fulfilled", "rejected"} :
          Settle(k, outcome)
    \/ \E c \in Callers : Resume(c)
    \/ \E c \in Callers : Again(c)

SpecDb == DbInit /\ [][DbNext]_vars

(* Properties of dbConnect *)

\* the first attempt is pending or has succeeded
FirstAttemptAlive == attempts # <<>> /\ attempts[1] \in {"pending", "fulfilled"}

\* C30: while the first attempt is pending or has succeeded,
\* mongoose.connect has been invoked once, and every caller that resolved
\* got the same connection, the one cached.
C30_SingleConnection ==
    FirstAttemptAlive =>
        /\ Len(attempts) = 1
        /\ \A c \in Callers : dbResult[c] # 0 => dbResult[c] = 1
        /\ cachedConn \in {0, 1}
        /\ cachedPromise = 1

\* three callers resolved: two that awaited the pending promise together
\* and one that called after the connection was cached
C30_Witness ==
    /\ attempts = <<"fulfilled">>
    /\ \A c \in Callers : dbPc[c] = "resolved" /\ dbResult[c] = 1
    /\ dbAwaits[1] = 1
    /\ dbAwaits[2] = 1
    /\ dbAwaits[3] = 0

=============================================================================
